---- MODULE Spec2Model ----
(***************************************************************************)
(* Model of the workshop controller's device-state handling               *)
(* (components/WorkshopControl.tsx, kept as src/unnamed/part_001).         *)
(*                                                                         *)
(* React state is modelled by one variable per useState cell; a callback  *)
(* created in a render sees the values of that render, so a callback that *)
(* runs later (debounce timer, live-session onmessage) carries a Render   *)
(* record: the values its updateLightState closure captured.              *)
(***************************************************************************)
EXTENDS Integers, Sequences, FiniteSets, TLC

VARIABLES
    lights,                 \* useState<LightState>
    isUpdatingLight,        \* useState(false)
    lightIpAddress,         \* useState('http://192.168.1.50')
    lightConnectionStatus,  \* useState<LightConnectionStatus>('Disconnected')
    connecting,             \* number of GET /status requests in flight
    inflight,               \* POST /state requests in flight, in issue order
    timers,                 \* armed debounce timers (the closure each carries)
    lightColorTimeoutRef,   \* "null", "pending" (last armed timer), "fired"
    isListening,            \* useState(false)
    activeTab,              \* App: the mounted tab, "workshop" or "analyzer"
    sessions,               \* live sessions started so far and what their onopen acquired
    sessionPromise,         \* useRef: 0 (null) or the session of the promise
    audioContext,           \* useRef: 0 or the session whose onopen created the context
    mediaStream,            \* useRef: 0 or the session whose getUserMedia gave the stream
    scriptProcessor,        \* useRef (with mediaStreamSource): 0 or the session of the nodes
    queue,                  \* frames waiting in then() for a pending session promise
    frames,                 \* history: frames handed to sendRealtimeInput, in order
    captured,               \* history: number of onaudioprocess events
    ended,                  \* history: how the running conversation was last ended
    stopRan,                \* history: stopConversation was called since the last start
    voiceSessions,          \* live sessions: the closure their onmessage carries
    dustCollectorOn,        \* useState(false)
    camera,                 \* useState({ power: false, recording: false })
    cameraStream,           \* useState<MediaStream | null>(null): a stream is held
    cameraRequests,         \* getUserMedia calls of the camera effect not yet settled
    cncStatus,              \* useState<CncStatus>('Disconnected')
    gcodeFile,              \* useState<string | null>(null)
    gcodeProgress,          \* useState(0)
    wsAddress,              \* useState('ws://192.168.1.123:8765')
    sockets,                \* the WebSockets created so far: their state
    websocketRef,           \* useRef<WebSocket | null>: index into sockets, 0 for null
    isScannerOpen,          \* useState(false): the NetworkScanner is mounted
    isScanning,             \* NetworkScanner: useState(false)
    scanProgress,           \* NetworkScanner: useState(0)
    scanResults,            \* NetworkScanner: useState<string[]>([]), host suffixes
    scanAbortControllerRef, \* "null", "live" or "aborted"
    probes,                 \* per host suffix: the fetch of the last scan
    issued,                 \* history: probes issued per host suffix by the last scan
    abortedResults,         \* history: scanResults when the scan was aborted
    outbox,                 \* history: the commands handed to WebSocket.send, in order
    parseLog,               \* history: "failed" after a message that did not parse
    limit,                  \* history: the longest run explored
    steps,                  \* history: number of steps taken (bounds the run)
    lastOp,                 \* history: the handler that made the last step
    alerted,                \* history: the last step raised alert(...)
    handledSrc,             \* history: source of the command whose response the last step handled
    confirmed,              \* history: state carried by the last successful command
    burst,                  \* history: the current run of slider changes
    localStorage,           \* the item 'gemini-api-key' of the browser: NoKey or a key
    apiKey,                 \* App: useState<string | null>(null)
    showKeyModal,           \* App: useState(false)
    isVerifyingKey,         \* App: useState(false)
    keyError,               \* App: useState('')
    key,                    \* ApiKeyModal: useState(''), the text of the input
    keyRequest,             \* the key of the validation call in flight, NoKey for none
    keyLog,                 \* history: how the validation calls ended, in order
    googleToken,            \* server.js: null or the simulated token
    lightState,             \* server.js: { power, color: { r, g, b } }
    delayed,                \* server.js: accepted requests waiting in their setTimeout
    response,               \* history: the last response sent by the backend
    swState,                \* sw.js: "parsed", "installed", "activated" or "redundant"
    caches,                 \* CacheStorage of the origin: per cache name, whether it exists and its urls
    served,                 \* history: how the last fetch event was answered
    deleted,                \* history: the names of the caches that activate deleted
    API_KEY,                \* process.env.API_KEY of the build: NoKey or a key
    isKeyAvailable,         \* ResearchAssistant: useState(false), set by the mount effect
    messages,               \* ResearchAssistant: useState<Message[]>([])
    input,                  \* ResearchAssistant: useState(''), the text of the input
    loading,                \* ResearchAssistant: useState(false)
    error,                  \* ResearchAssistant: useState('')
    requests                \* the generateContent calls of the assistant in flight

lightVars == <<lights, isUpdatingLight, lightIpAddress, lightConnectionStatus,
               connecting, inflight, timers, lightColorTimeoutRef>>
audioVars == <<activeTab, sessions, sessionPromise, audioContext, mediaStream,
               scriptProcessor, queue, frames, captured, ended, stopRan>>
voiceVars == <<isListening, voiceSessions, audioVars>>
deviceVars == <<dustCollectorOn, camera, cameraStream, cameraRequests, cncStatus,
                gcodeFile, gcodeProgress, wsAddress, sockets, websocketRef,
                outbox, parseLog>>
scanVars == <<isScannerOpen, isScanning, scanProgress, scanResults,
              scanAbortControllerRef, probes, issued, abortedResults>>
histVars == <<limit, steps, lastOp, alerted, handledSrc, confirmed, burst>>
keyVars == <<localStorage, apiKey, showKeyModal, isVerifyingKey, keyError, key,
             keyRequest, keyLog>>
backendVars == <<googleToken, lightState, delayed, response>>
swVars == <<swState, caches, served, deleted>>
assistantVars == <<API_KEY, isKeyAvailable, messages, input, loading, error, requests>>
otherVars == <<backendVars, swVars, assistantVars>>
vars == <<lightVars, voiceVars, deviceVars, scanVars, histVars, keyVars, otherVars>>

----------------------------------------------------------------------------
\* Bounds of the model
MaxInFlight == 2
MaxTimers == 2
MaxConnecting == 2
MaxSteps == 9
MaxDeviceSteps == 7
MaxSockets == 2
MaxCameraRequests == 2
\* host suffixes swept by a scan (1..254 in the code)
MaxHosts == 3
\* live sessions started in a run
MaxSessions == 2
\* onaudioprocess events in a run
MaxFrames == 2
\* commands handed to the CNC socket in a run
MaxCommands == 2
\* the longest run of the requests model
MaxRequestSteps == 4
MaxKeySteps == 6
MaxServerSteps == 5
MaxDelayed == 2
MaxAssistantSteps == 7
MaxSwSteps == 5

\* JS `undefined` for a numeric field of Partial<LightState>
Undefined == -1

\* values the colour sliders and voice calls choose from (0..255 in the code)
SliderValues == {10, 40}
Channels == {"r", "g"}
IpAddresses == {"", "http://192.168.1.50"}

InitialLights == [power |-> "off", r |-> 255, g |-> 220, b |-> 180]

NoChange == [power |-> "undefined", r |-> Undefined, g |-> Undefined, b |-> Undefined]
NoColor == [r |-> Undefined, g |-> Undefined, b |-> Undefined]

Rgb(l) == [r |-> l.r, g |-> l.g, b |-> l.b]

\* { ...originalState, ...newState }
Merge(o, n) ==
    [power |-> IF n.power # "undefined" THEN n.power ELSE o.power,
     r |-> IF n.r # Undefined THEN n.r ELSE o.r,
     g |-> IF n.g # Undefined THEN n.g ELSE o.g,
     b |-> IF n.b # Undefined THEN n.b ELSE o.b]

\* the request body built from newState and updatedState
Payload(n, u) ==
    [power |-> n.power,
     color |-> IF n.r # Undefined \/ n.g # Undefined \/ n.b # Undefined
               THEN Rgb(u) ELSE NoColor]

PayloadEmpty(p) == p.power = "undefined" /\ p.color = NoColor

\* the values the callbacks created by the current render capture
Render ==
    [status |-> lightConnectionStatus, updating |-> isUpdatingLight,
     lights |-> lights]

isLightConnected == lightConnectionStatus = "Connected"
isLightConnectable == lightConnectionStatus \in {"Disconnected", "Error"}
\* <fieldset disabled={!isLightConnected || isUpdatingLight}>
LightFieldsetEnabled == isLightConnected /\ ~isUpdatingLight

RemoveAt(s, i) == SubSeq(s, 1, i - 1) \o SubSeq(s, i + 1, Len(s))

\* a handler that arms a new timer without clearing the previous one
ClearTimeoutMissing(ts, ref) == ts

\* if (lightColorTimeoutRef.current) clearTimeout(lightColorTimeoutRef.current)
ClearTimeout(ts, ref) == IF ref = "pending" THEN SubSeq(ts, 1, Len(ts) - 1) ELSE ts

\* no key: null in the state, no item in local storage
NoKey == "null"
\* the keys the validation call can accept
ValidKeys == {"k1"}

\* the app after its mount effect found a stored key (lines 212-219)
KeyStored ==
    /\ localStorage = "k1"
    /\ apiKey = "k1"
    /\ showKeyModal = FALSE
    /\ isVerifyingKey = FALSE
    /\ keyError = ""
    /\ key = ""
    /\ keyRequest = NoKey
    /\ keyLog = << >>

\* const CACHE_NAME = 'workshop-ai-controller-cache-v3', and the name of the version before
CACHE_NAME == "workshop-ai-controller-cache-v3"
OldCacheName == "workshop-ai-controller-cache-v2"
CacheNames == {CACHE_NAME, OldCacheName}
Absent == [exists |-> FALSE, urls |-> {}]
\* a cache that holds the urls us
Cache(us) == [exists |-> TRUE, urls |-> us]
NotServed == [method |-> "none", url |-> << >>, from |-> "none", status |-> 0, stored |-> FALSE]

\* a browser in which the service worker was never registered
SwFresh ==
    /\ swState = "parsed"
    /\ caches = [n \in CacheNames |-> Absent]
    /\ served = NotServed
    /\ deleted = {}

\* the research assistant after its mount effect, in a build with a key
AssistantFresh ==
    /\ API_KEY = "k1"
    /\ isKeyAvailable = TRUE
    /\ messages = << >>
    /\ input = ""
    /\ loading = FALSE
    /\ error = ""
    /\ requests = << >>

InitState ==
    /\ lights = InitialLights
    /\ isUpdatingLight = FALSE
    /\ lightIpAddress = "http://192.168.1.50"
    /\ lightConnectionStatus = "Disconnected"
    /\ connecting = 0
    /\ inflight = << >>
    /\ timers = << >>
    /\ lightColorTimeoutRef = "null"
    /\ isListening = FALSE
    /\ voiceSessions = << >>
    /\ sessions = << >>
    /\ sessionPromise = 0
    /\ audioContext = 0
    /\ mediaStream = 0
    /\ scriptProcessor = 0
    /\ queue = << >>
    /\ frames = << >>
    /\ captured = 0
    /\ ended = "none"
    /\ stopRan = FALSE
    /\ dustCollectorOn = FALSE
    /\ camera = [power |-> FALSE, recording |-> FALSE]
    /\ cameraStream = FALSE
    /\ cameraRequests = 0
    /\ cncStatus = "Disconnected"
    /\ gcodeFile = "null"
    /\ gcodeProgress = 0
    /\ wsAddress = "ws://192.168.1.123:8765"
    /\ sockets = << >>
    /\ websocketRef = 0
    /\ outbox = << >>
    /\ parseLog = "none"
    /\ isScannerOpen = FALSE
    /\ isScanning = FALSE
    /\ scanProgress = 0
    /\ scanResults = << >>
    /\ scanAbortControllerRef = "null"
    /\ probes = [h \in 1..MaxHosts |-> "none"]
    /\ issued = [h \in 1..MaxHosts |-> 0]
    /\ abortedResults = << >>
    /\ steps = 0
    /\ lastOp = "init"
    /\ alerted = FALSE
    /\ handledSrc = "none"
    /\ confirmed = InitialLights
    /\ burst = [active |-> FALSE, clean |-> FALSE, final |-> Rgb(InitialLights)]
    /\ googleToken = "null"
    /\ lightState = [power |-> "off", color |-> [r |-> 255, g |-> 255, b |-> 255]]
    /\ delayed = << >>
    /\ response = [status |-> 0, to |-> "none"]

Init == InitState /\ KeyStored /\ SwFresh /\ AssistantFresh /\ limit = MaxSteps /\ activeTab = "workshop"

\* history: a step that is not a slider change ends the cleanliness of a burst
Disturb == burst' = [burst EXCEPT !.clean = FALSE]

\* every step counts against the bound on the length of a run
Tick == steps < limit /\ steps' = steps + 1 /\ limit' = limit /\ UNCHANGED <<keyVars, otherVars>>

\* a step of the light or of the voice session leaves the other devices alone
LightTick == Tick /\ UNCHANGED <<deviceVars, scanVars>>

----------------------------------------------------------------------------
\* Smart light: connect / disconnect

SetLightIpAddress(ip) ==
    /\ isLightConnectable
    /\ ip # lightIpAddress
    /\ lightIpAddress' = ip
    /\ LightTick
    /\ lastOp' = "setLightIpAddress"
    /\ alerted' = FALSE
    /\ handledSrc' = "none"
    /\ UNCHANGED <<lights, isUpdatingLight, lightConnectionStatus, connecting,
                   inflight, timers, lightColorTimeoutRef, voiceVars, confirmed, burst>>

\* handleConnectLight up to the await
HandleConnectLight ==
    /\ isLightConnectable
    /\ lightIpAddress # ""
    /\ connecting < MaxConnecting
    /\ lightConnectionStatus' = "Connecting"
    /\ connecting' = connecting + 1
    /\ LightTick
    /\ lastOp' = "handleConnectLight"
    /\ alerted' = FALSE
    /\ handledSrc' = "none"
    /\ UNCHANGED <<lights, isUpdatingLight, lightIpAddress, inflight, timers,
                   lightColorTimeoutRef, voiceVars, confirmed, burst>>

\* a connect that adopts the state reported by the device (setLights(data.state))
LightsAfterConnectAdopted(ok, current) ==
    IF ok THEN [current EXCEPT !.power = "on"] ELSE current

\* the response body is not read: lights keeps its value
LightsAfterConnect(ok, current) == current

\* handleConnectLight after the await: ok, or not ok / network error / 3 s timeout
ConnectResponse(ok) ==
    /\ connecting > 0
    /\ lights' = LightsAfterConnect(ok, lights)
    /\ connecting' = connecting - 1
    /\ lightConnectionStatus' = IF ok THEN "Connected" ELSE "Error"
    /\ LightTick
    /\ lastOp' = "connectResponse"
    /\ alerted' = FALSE
    /\ handledSrc' = "none"
    /\ UNCHANGED <<isUpdatingLight, lightIpAddress, inflight, timers,
                   lightColorTimeoutRef, voiceVars, confirmed, burst>>

HandleDisconnectLight ==
    /\ lightConnectionStatus = "Connected"
    /\ lightConnectionStatus' = "Disconnected"
    /\ LightTick
    /\ lastOp' = "handleDisconnectLight"
    /\ alerted' = FALSE
    /\ handledSrc' = "none"
    /\ UNCHANGED <<lights, isUpdatingLight, lightIpAddress, connecting, inflight,
                   timers, lightColorTimeoutRef, voiceVars, confirmed, burst>>

----------------------------------------------------------------------------
\* Smart light: updateLightState

\* if (lightConnectionStatus !== 'Connected' || isUpdatingLight) return;
Rejected(cl) == cl.status # "Connected" \/ cl.updating

\* a snapshot taken after the optimistic write instead of before it
SnapshotAfterWrite(cl, newState) == Merge(cl.lights, newState)

\* const originalState = { ...lights };
Snapshot(cl, newState) == cl.lights

\* updateLightState(newState) as the closure cl runs it, up to the await.
\* Sets lights', isUpdatingLight' and inflight'.  The field pre of a request
\* is history: the lights the command found when it ran.
UpdateLightState(cl, newState, src) ==
    IF Rejected(cl)
    THEN UNCHANGED <<lights, isUpdatingLight, inflight>>
    ELSE LET originalState == Snapshot(cl, newState)
             updatedState == Merge(originalState, newState)
             payload == Payload(newState, updatedState)
         IN  /\ lights' = updatedState
             /\ IF PayloadEmpty(payload)
                THEN /\ isUpdatingLight' = FALSE
                     /\ inflight' = inflight
                ELSE /\ isUpdatingLight' = TRUE
                     /\ inflight' = Append(inflight,
                            [src |-> src, newState |-> newState,
                             originalState |-> originalState,
                             updatedState |-> updatedState,
                             payload |-> payload, pre |-> lights])

HandleLightPowerToggle ==
    /\ LightFieldsetEnabled
    /\ Len(inflight) < MaxInFlight
    /\ UpdateLightState(Render,
           [NoChange EXCEPT !.power = IF lights.power = "on" THEN "off" ELSE "on"],
           "toggle")
    /\ LightTick
    /\ lastOp' = "handleLightPowerToggle"
    /\ alerted' = FALSE
    /\ handledSrc' = "none"
    /\ Disturb
    /\ UNCHANGED <<lightIpAddress, lightConnectionStatus, connecting, timers,
                   lightColorTimeoutRef, voiceVars, confirmed>>

\* handleLightColorChange(color, value): direct write, then (re)arm the timer.
\* The sliders sit in the fieldset; while the power is off they are only
\* greyed out by CSS (pointer-events-none) and remain usable by keyboard.
HandleLightColorChange(color, value) ==
    /\ LightFieldsetEnabled
    /\ lights[color] # value
    /\ Len(ClearTimeout(timers, lightColorTimeoutRef)) < MaxTimers
    /\ lights' = [lights EXCEPT ![color] = value]
    /\ timers' = Append(ClearTimeout(timers, lightColorTimeoutRef), Render)
    /\ lightColorTimeoutRef' = "pending"
    /\ burst' = [active |-> TRUE,
                 clean |-> IF burst.active THEN burst.clean ELSE Len(inflight) = 0,
                 final |-> Rgb(lights')]
    /\ LightTick
    /\ lastOp' = "handleLightColorChange"
    /\ alerted' = FALSE
    /\ handledSrc' = "none"
    /\ UNCHANGED <<isUpdatingLight, lightIpAddress, lightConnectionStatus,
                   connecting, inflight, voiceVars, confirmed>>

\* the debounce timer fires 250 ms after the change that armed it: the updater
\* passed to setLights sees the latest lights and calls the updateLightState
\* of the render that armed the timer; its setLights(updatedState) is the
\* value lights has afterwards
LightColorTimeout(i) ==
    /\ i \in 1..Len(timers)
    /\ Len(inflight) < MaxInFlight
    /\ UpdateLightState(timers[i],
           [NoChange EXCEPT !.r = lights.r, !.g = lights.g, !.b = lights.b],
           "slider")
    /\ timers' = RemoveAt(timers, i)
    /\ lightColorTimeoutRef' =
           IF i = Len(timers) /\ lightColorTimeoutRef = "pending"
           THEN "fired" ELSE lightColorTimeoutRef
    /\ burst' = [burst EXCEPT !.active = Len(timers') > 0]
    /\ LightTick
    /\ lastOp' = "lightColorTimeout"
    /\ alerted' = FALSE
    /\ handledSrc' = "none"
    /\ UNCHANGED <<lightIpAddress, lightConnectionStatus, connecting,
                   voiceVars, confirmed>>

Outcomes == {"ok", "notOk", "networkError", "timeout"}

\* a catch block that reverts the lights but leaves the status alone
StatusAfterKept(outcome, status) == status

\* catch: setLightConnectionStatus('Error'); nothing on success
StatusAfter(outcome, status) == IF outcome = "ok" THEN status ELSE "Error"

\* the flag reset placed in the catch block instead of the finally block
UpdatingAfterCatchOnly(outcome, updating) == IF outcome = "ok" THEN updating ELSE FALSE

\* finally: setIsUpdatingLight(false)
UpdatingAfter(outcome, updating) == FALSE

\* updateLightState after the await
\* outcome: "ok", "notOk" (response.ok false), "networkError", "timeout" (3 s)
LightResponse(i, outcome) ==
    /\ i \in 1..Len(inflight)
    /\ inflight' = RemoveAt(inflight, i)
    /\ lights' = IF outcome = "ok" THEN lights ELSE inflight[i].originalState
    /\ lightConnectionStatus' = StatusAfter(outcome, lightConnectionStatus)
    /\ isUpdatingLight' = UpdatingAfter(outcome, isUpdatingLight)
    /\ alerted' = (outcome # "ok")
    /\ handledSrc' = inflight[i].src
    /\ confirmed' = IF outcome = "ok" THEN inflight[i].updatedState ELSE confirmed
    /\ LightTick
    /\ lastOp' = IF outcome = "ok" THEN "lightResponseOk" ELSE "lightResponseFailed"
    /\ Disturb
    /\ UNCHANGED <<lightIpAddress, connecting, timers, lightColorTimeoutRef, voiceVars>>

----------------------------------------------------------------------------
\* Voice assistant: the live session, its audio resources and its tool calls
\* (WorkshopControl on the workshop tab, ImageAnalyzer on the analyzer tab;
\* an API key is entered)

Tabs == {"workshop", "analyzer"}

\* what startConversation and the onopen of one session have acquired
NewSession(listening, tab) ==
    [ socket |-> "connecting",      \* "connecting", "open", "closed"
      closeQueued |-> FALSE,        \* then(session => session.close()) waits for the promise
      isListening |-> listening,    \* isListening in the closure of the callbacks
      outputAudioContext |-> IF tab = "workshop" THEN "running" ELSE "none",
      audioContext |-> "none",      \* "none", "running", "closed"
      mediaStream |-> "none",       \* "none", "requested", "live", "stopped", "denied"
      graph |-> "none",             \* source and processor: "none", "connected", "disconnected"
      on |-> 0 ]                    \* the session whose context the nodes were created on

\* the refs and state stopConversation works on
Audio ==
    [ isListening |-> isListening, sessions |-> sessions,
      sessionPromise |-> sessionPromise, audioContext |-> audioContext,
      mediaStream |-> mediaStream, scriptProcessor |-> scriptProcessor ]

SetAudio(a) ==
    /\ isListening' = a.isListening
    /\ sessions' = a.sessions
    /\ sessionPromise' = a.sessionPromise
    /\ audioContext' = a.audioContext
    /\ mediaStream' = a.mediaStream
    /\ scriptProcessor' = a.scriptProcessor

\* stopConversation of a render whose isListening is `listening`, on the refs a
stopConversation(listening, a) ==
    IF ~listening THEN a
    ELSE [ isListening |-> FALSE,
           sessions |->
               [ i \in DOMAIN a.sessions |->
                   [ a.sessions[i] EXCEPT
                       !.socket = IF i = a.sessionPromise /\ @ = "open" THEN "closed" ELSE @,
                       !.closeQueued = @ \/ (i = a.sessionPromise
                                             /\ a.sessions[i].socket = "connecting"),
                       !.graph = IF i = a.scriptProcessor THEN "disconnected" ELSE @,
                       !.audioContext = IF i = a.audioContext THEN "closed" ELSE @,
                       !.mediaStream = IF i = a.mediaStream THEN "stopped" ELSE @ ] ],
           sessionPromise |-> 0, audioContext |-> 0,
           mediaStream |-> 0, scriptProcessor |-> 0 ]

\* a session whose socket is open delivers server messages
SessionOpened == \E s \in DOMAIN sessions : sessions[s].socket = "open"

\* startConversation up to ai.live.connect
StartConversation ==
    /\ ~isListening
    /\ activeTab = "workshop" => apiKey # NoKey
    /\ Len(sessions) < MaxSessions
    /\ isListening' = TRUE
    /\ sessions' = Append(sessions, NewSession(isListening, activeTab))
    /\ sessionPromise' = Len(sessions) + 1
    /\ voiceSessions' = <<Render>>
    /\ ended' = "none"
    /\ stopRan' = FALSE
    /\ LightTick
    /\ lastOp' = "startConversation"
    /\ alerted' = FALSE
    /\ handledSrc' = "none"
    /\ UNCHANGED <<lightVars, confirmed, burst, activeTab, audioContext, mediaStream,
                   scriptProcessor, queue, frames, captured>>

\* the Stop button: stopConversation of the current render
StopConversation ==
    /\ isListening
    /\ SetAudio(stopConversation(isListening, Audio))
    /\ voiceSessions' = << >>
    /\ ended' = "stop"
    /\ stopRan' = TRUE
    /\ LightTick
    /\ lastOp' = "stopConversation"
    /\ alerted' = FALSE
    /\ handledSrc' = "none"
    /\ UNCHANGED <<lightVars, confirmed, burst, activeTab, queue, frames, captured>>

\* frames queued on the promise of session s, in the order of their then()
QueuedFor(s) == SelectSeq(queue, LAMBDA f : f.to = s)

\* the socket of session s opens: onopen runs up to its await of getUserMedia,
\* then the promise resolves and the reactions registered on it run in order
SessionOpen(s) ==
    /\ s \in DOMAIN sessions
    /\ sessions[s].socket = "connecting"
    /\ sessions' = [sessions EXCEPT ![s].socket = IF sessions[s].closeQueued
                                                  THEN "closed" ELSE "open",
                                    ![s].audioContext = "running",
                                    ![s].mediaStream = "requested"]
    /\ audioContext' = s
    /\ frames' = frames \o [i \in 1..Len(QueuedFor(s)) |->
                              [QueuedFor(s)[i] EXCEPT !.stopped = stopRan, !.active = TRUE]]
    /\ queue' = SelectSeq(queue, LAMBDA f : f.to # s)
    /\ LightTick
    /\ lastOp' = "sessionOpen"
    /\ alerted' = FALSE
    /\ handledSrc' = "none"
    /\ UNCHANGED <<lightVars, confirmed, burst, isListening, voiceSessions, activeTab,
                   sessionPromise, mediaStream, scriptProcessor, captured, ended, stopRan>>

\* the other audio steps leave the devices alone and are not counted
AudioTick ==
    /\ UNCHANGED <<lightVars, deviceVars, scanVars, limit, steps, confirmed, burst,
                   voiceSessions, activeTab, keyVars, otherVars>>
    /\ handledSrc' = "none"

\* getUserMedia of the onopen of session s settles; the rest of onopen runs
GetUserMedia(s, ok) ==
    /\ s \in DOMAIN sessions
    /\ sessions[s].mediaStream = "requested"
    /\ LET granted == [Audio EXCEPT !.mediaStream = s,
                                    !.sessions[s].mediaStream = "live"]
           wired == [granted EXCEPT !.scriptProcessor = s,
                                    !.sessions[s].graph = "connected",
                                    !.sessions[s].on = audioContext]
           denied == [Audio EXCEPT !.sessions[s].mediaStream = "denied"]
       IN  \/ /\ ok
              /\ audioContext # 0
              /\ SetAudio(wired)
              /\ alerted' = FALSE
              /\ UNCHANGED <<ended, stopRan>>
           \/ /\ ok
              /\ audioContext = 0   \* audioContext.current is null: TypeError, caught
              /\ SetAudio(stopConversation(sessions[s].isListening, granted))
              /\ alerted' = TRUE
              /\ ended' = "micFailure"
              /\ stopRan' = TRUE
           \/ /\ ~ok
              /\ SetAudio(stopConversation(sessions[s].isListening, denied))
              /\ alerted' = TRUE
              /\ ended' = "micFailure"
              /\ stopRan' = TRUE
    /\ AudioTick
    /\ lastOp' = IF ok THEN "getUserMediaOk" ELSE "getUserMediaFailed"
    /\ UNCHANGED <<queue, frames, captured>>

\* onaudioprocess of the processor of session g: one captured frame
AudioProcess(g) ==
    /\ g \in DOMAIN sessions
    /\ sessions[g].graph = "connected"
    /\ sessions[sessions[g].on].audioContext = "running"
    /\ captured < MaxFrames
    /\ captured' = captured + 1
    /\ LET frame == [n |-> captured + 1, to |-> sessionPromise, stopped |-> stopRan,
                     active |-> sessionPromise # 0
                                /\ sessions[sessionPromise].socket = "open"]
       IN  IF sessionPromise = 0
           THEN UNCHANGED <<queue, frames>>
           ELSE IF sessions[sessionPromise].socket = "connecting"
           THEN queue' = Append(queue, frame) /\ frames' = frames
           ELSE frames' = Append(frames, frame) /\ queue' = queue
    /\ AudioTick
    /\ lastOp' = "audioProcess"
    /\ alerted' = FALSE
    /\ UNCHANGED <<isListening, sessions, sessionPromise, audioContext, mediaStream,
                   scriptProcessor, ended, stopRan>>

\* the callbacks of session s that call stopConversation, per component
CallsStop(tab, how) == tab = "analyzer" /\ how \in {"error", "turnComplete"}

\* onmessage with turnComplete (ImageAnalyzer: stopConversation, then analyzeImage)
TurnComplete(s) ==
    /\ activeTab = "analyzer"
    /\ s \in DOMAIN sessions
    /\ sessions[s].socket = "open"
    /\ SetAudio(stopConversation(sessions[s].isListening /\ CallsStop(activeTab, "turnComplete"),
                                 Audio))
    /\ ended' = "turnComplete"
    /\ stopRan' = TRUE
    /\ AudioTick
    /\ lastOp' = "turnComplete"
    /\ alerted' = FALSE
    /\ UNCHANGED <<queue, frames, captured>>

\* the session ends from the server side: onerror (and the close that follows), or onclose
SessionEnds(s, how) ==
    /\ s \in DOMAIN sessions
    /\ how \in {"error", "close"}
    /\ sessions[s].socket \in {"connecting", "open"}
    /\ how = "close" => sessions[s].socket = "open"
    /\ LET closed == [Audio EXCEPT !.sessions[s].socket = "closed"]
       IN  SetAudio(stopConversation(sessions[s].isListening /\ CallsStop(activeTab, how),
                                     closed))
    /\ queue' = SelectSeq(queue, LAMBDA f : f.to # s)
    /\ ended' = how
    /\ stopRan' = (stopRan \/ CallsStop(activeTab, how))
    /\ AudioTick
    /\ lastOp' = IF how = "error" THEN "sessionError" ELSE "sessionClose"
    /\ alerted' = FALSE
    /\ UNCHANGED <<frames, captured>>

\* fc.args of a controlLights call
VoiceLightArgs ==
    { NoChange,
      [NoChange EXCEPT !.power = "on"],
      [NoChange EXCEPT !.r = 40] }

\* onmessage with a controlLights function call: applyLightStateFromVoice
ControlLights(args) ==
    /\ Len(voiceSessions) > 0
    /\ activeTab = "workshop"
    /\ SessionOpened
    /\ Len(inflight) < MaxInFlight
    /\ UpdateLightState(voiceSessions[1], args, "voice")
    /\ LightTick
    /\ lastOp' = "controlLights"
    /\ alerted' = FALSE
    /\ handledSrc' = "none"
    /\ Disturb
    /\ UNCHANGED <<lightIpAddress, lightConnectionStatus, connecting, timers,
                   lightColorTimeoutRef, voiceVars, confirmed>>

----------------------------------------------------------------------------
\* Dust collector, camera and CNC bridge

\* a step of another device leaves the light and the voice session alone
DeviceTick == Tick /\ UNCHANGED <<lightVars, voiceVars, scanVars, confirmed, burst, outbox>>

CncStatusValues == {"Disconnected", "Connecting", "Idle", "Running", "Paused"}
isCncConnected == cncStatus # "Disconnected" /\ cncStatus # "Connecting"
\* the address field: empty, the default, or text that is no URL
WsAddresses == {"", "ws://192.168.1.123:8765", "192.168.1.123:8765"}

\* new WebSocket(url) throws a SyntaxError unless url parses with a ws / wss scheme
WellFormed(a) == a = "ws://192.168.1.123:8765"

\* onClick={() => setDustCollectorOn(!dustCollectorOn)}
ToggleDustCollector ==
    /\ dustCollectorOn' = ~dustCollectorOn
    /\ DeviceTick
    /\ parseLog' = parseLog
    /\ lastOp' = "toggleDustCollector"
    /\ alerted' = FALSE
    /\ handledSrc' = "none"
    /\ UNCHANGED <<camera, cameraStream, cameraRequests, cncStatus, gcodeFile,
                   gcodeProgress, wsAddress, sockets, websocketRef>>

\* tool call controlDustCollector: setDustCollectorOn(fc.args.power === 'on')
ControlDustCollector(power) ==
    /\ Len(voiceSessions) > 0
    /\ activeTab = "workshop"
    /\ SessionOpened
    /\ dustCollectorOn' = (power = "on")
    /\ DeviceTick
    /\ parseLog' = parseLog
    /\ lastOp' = "controlDustCollector"
    /\ alerted' = FALSE
    /\ handledSrc' = "none"
    /\ UNCHANGED <<camera, cameraStream, cameraRequests, cncStatus, gcodeFile,
                   gcodeProgress, wsAddress, sockets, websocketRef>>

\* setCamera(cam) followed by the effect on [camera.power] (manageCameraStream):
\* power turned on starts getUserMedia; power turned off stops the stream the
\* render holds and clears recording.  Sets camera', cameraStream', cameraRequests'.
SetCamera(cam) ==
    IF cam.power = camera.power
    THEN camera' = cam /\ UNCHANGED <<cameraStream, cameraRequests>>
    ELSE IF cam.power
         THEN /\ camera' = cam
              /\ cameraRequests' = cameraRequests + 1
              /\ cameraStream' = cameraStream
         ELSE /\ camera' = [cam EXCEPT !.recording = FALSE]
              /\ cameraStream' = FALSE
              /\ cameraRequests' = cameraRequests

\* onClick={() => setCamera(c => ({...c, power: !c.power}))}
ToggleCameraPower ==
    /\ camera.power \/ cameraRequests < MaxCameraRequests
    /\ SetCamera([camera EXCEPT !.power = ~camera.power])
    /\ DeviceTick
    /\ parseLog' = parseLog
    /\ lastOp' = "toggleCameraPower"
    /\ alerted' = FALSE
    /\ handledSrc' = "none"
    /\ UNCHANGED <<dustCollectorOn, cncStatus, gcodeFile, gcodeProgress, wsAddress,
                   sockets, websocketRef>>

\* onClick={() => setCamera(c => ({...c, recording: !c.recording}))} disabled={!camera.power}
ToggleCameraRecording ==
    /\ camera.power
    /\ SetCamera([camera EXCEPT !.recording = ~camera.recording])
    /\ DeviceTick
    /\ parseLog' = parseLog
    /\ lastOp' = "toggleCameraRecording"
    /\ alerted' = FALSE
    /\ handledSrc' = "none"
    /\ UNCHANGED <<dustCollectorOn, cncStatus, gcodeFile, gcodeProgress, wsAddress,
                   sockets, websocketRef>>

\* fc.args of a controlCamera call: power 'on' / 'off' / absent, recording true / false / absent
CameraArgs == [power : {"on", "off", "undefined"}, recording : {"true", "false", "undefined"}]

\* tool call controlCamera: setCamera(prev => ({ ...prev, power?, recording? }))
ControlCamera(args) ==
    /\ Len(voiceSessions) > 0
    /\ activeTab = "workshop"
    /\ SessionOpened
    /\ LET cam == [power |-> IF args.power # "undefined" THEN args.power = "on"
                             ELSE camera.power,
                   recording |-> IF args.recording # "undefined" THEN args.recording = "true"
                                 ELSE camera.recording]
       IN  /\ cam.power = camera.power \/ ~cam.power \/ cameraRequests < MaxCameraRequests
           /\ SetCamera(cam)
    /\ DeviceTick
    /\ parseLog' = parseLog
    /\ lastOp' = "controlCamera"
    /\ alerted' = FALSE
    /\ handledSrc' = "none"
    /\ UNCHANGED <<dustCollectorOn, cncStatus, gcodeFile, gcodeProgress, wsAddress,
                   sockets, websocketRef>>

\* manageCameraStream after the await: the stream, or the catch block
CameraAccess(ok) ==
    /\ cameraRequests > 0
    /\ IF ok
       THEN /\ cameraStream' = TRUE
            /\ cameraRequests' = cameraRequests - 1
            /\ camera' = camera
       ELSE \* setCamera(c => ({ ...c, power: false })); the effect runs if power changed
            IF camera.power
            THEN /\ camera' = [power |-> FALSE, recording |-> FALSE]
                 /\ cameraStream' = FALSE
                 /\ cameraRequests' = cameraRequests - 1
            ELSE /\ cameraRequests' = cameraRequests - 1
                 /\ UNCHANGED <<camera, cameraStream>>
    /\ DeviceTick
    /\ parseLog' = parseLog
    /\ lastOp' = "cameraAccess"
    /\ alerted' = ~ok
    /\ handledSrc' = "none"
    /\ UNCHANGED <<dustCollectorOn, cncStatus, gcodeFile, gcodeProgress, wsAddress,
                   sockets, websocketRef>>

SetWsAddress(a) ==
    /\ ~isCncConnected
    /\ a # wsAddress
    /\ wsAddress' = a
    /\ DeviceTick
    /\ parseLog' = parseLog
    /\ lastOp' = "setWsAddress"
    /\ alerted' = FALSE
    /\ handledSrc' = "none"
    /\ UNCHANGED <<dustCollectorOn, camera, cameraStream, cameraRequests, cncStatus,
                   gcodeFile, gcodeProgress, sockets, websocketRef>>

\* a connect handler that shows the bridge as ready before the socket has opened
StatusOnCncConnectOptimistic(status) == "Idle"

\* setCncStatus('Connecting')
StatusOnCncConnect(status) == "Connecting"

\* connectUCCNC: the button is enabled unless cncStatus is Connecting
ConnectUCCNC ==
    /\ ~isCncConnected /\ cncStatus # "Connecting"
    /\ wsAddress # "" /\ cncStatus = "Disconnected"
    /\ WellFormed(wsAddress) => Len(sockets) < MaxSockets
    /\ cncStatus' = StatusOnCncConnect(cncStatus)
    /\ IF WellFormed(wsAddress)
       THEN /\ sockets' = Append(sockets, "CONNECTING")
            /\ websocketRef' = Len(sockets) + 1
       ELSE \* the constructor throws after setCncStatus('Connecting')
            UNCHANGED <<sockets, websocketRef>>
    /\ parseLog' = "none"
    /\ DeviceTick
    /\ lastOp' = "connectUCCNC"
    /\ alerted' = FALSE
    /\ handledSrc' = "none"
    /\ UNCHANGED <<dustCollectorOn, camera, cameraStream, cameraRequests, gcodeFile,
                   gcodeProgress, wsAddress>>

\* disconnectUCCNC: websocketRef.current?.close()
DisconnectUCCNC ==
    /\ isCncConnected
    /\ sockets' = IF websocketRef # 0 /\ sockets[websocketRef] \in {"CONNECTING", "OPEN"}
                  THEN [sockets EXCEPT ![websocketRef] = "CLOSING"]
                  ELSE sockets
    /\ DeviceTick
    /\ parseLog' = parseLog
    /\ lastOp' = "disconnectUCCNC"
    /\ alerted' = FALSE
    /\ handledSrc' = "none"
    /\ UNCHANGED <<dustCollectorOn, camera, cameraStream, cameraRequests, cncStatus,
                   gcodeFile, gcodeProgress, wsAddress, websocketRef>>

\* onopen: only logs
SocketOpen(s) ==
    /\ s \in 1..Len(sockets)
    /\ sockets[s] = "CONNECTING"
    /\ sockets' = [sockets EXCEPT ![s] = "OPEN"]
    /\ DeviceTick
    /\ parseLog' = parseLog
    /\ lastOp' = "ws.onopen"
    /\ alerted' = FALSE
    /\ handledSrc' = "none"
    /\ UNCHANGED <<dustCollectorOn, camera, cameraStream, cameraRequests, cncStatus,
                   gcodeFile, gcodeProgress, wsAddress, websocketRef>>

\* inbound messages: event.data that does not parse, or the fields it carries
CncMessages ==
    { [parses |-> FALSE, status |-> "undefined", gcodeFile |-> "undefined", progress |-> Undefined],
      [parses |-> TRUE, status |-> "Idle", gcodeFile |-> "job.nc", progress |-> Undefined],
      [parses |-> TRUE, status |-> "Running", gcodeFile |-> "undefined", progress |-> 50],
      [parses |-> TRUE, status |-> "undefined", gcodeFile |-> "undefined", progress |-> 50],
      [parses |-> TRUE, status |-> "Paused", gcodeFile |-> "undefined", progress |-> Undefined],
      [parses |-> TRUE, status |-> "Disconnected", gcodeFile |-> "undefined", progress |-> Undefined],
      [parses |-> TRUE, status |-> "undefined", gcodeFile |-> "", progress |-> Undefined] }

\* if (data.status), if (data.gcodeFile): absent and empty values are skipped
Truthy(v) == v \notin {"undefined", ""}

\* a handler that gives the connection up when a message does not parse
OnParseErrorDisconnects(status) == "Disconnected"

\* catch (e) { console.error(...) }
OnParseError(status) == status

\* onmessage
SocketMessage(s, data) ==
    /\ s \in 1..Len(sockets)
    /\ sockets[s] = "OPEN"
    /\ cncStatus' = IF ~data.parses THEN OnParseError(cncStatus)
                    ELSE IF Truthy(data.status) THEN data.status ELSE cncStatus
    /\ gcodeFile' = IF data.parses /\ Truthy(data.gcodeFile) THEN data.gcodeFile ELSE gcodeFile
    /\ parseLog' = IF ~data.parses THEN "failed"
                   ELSE IF parseLog = "none" THEN "none" ELSE "processedAfterFailure"
    /\ gcodeProgress' = IF data.parses /\ data.progress # Undefined THEN data.progress
                        ELSE gcodeProgress
    /\ DeviceTick
    /\ lastOp' = "ws.onmessage"
    /\ alerted' = FALSE
    /\ handledSrc' = "none"
    /\ UNCHANGED <<dustCollectorOn, camera, cameraStream, cameraRequests, wsAddress,
                   sockets, websocketRef>>

\* an error handler that opens a new connection
AfterSocketErrorReconnects(ss, s) == Append([ss EXCEPT ![s] = "CLOSED"], "CONNECTING")

\* onerror makes no new connection; the socket that failed is closed
AfterSocketError(ss, s) == [ss EXCEPT ![s] = "CLOSED"]

\* an onclose that keeps the loaded file
FileAfterCloseKept(file) == file

\* onclose: setGcodeFile(null)
FileAfterClose(file) == "null"

\* the connection failed: the browser fires error and then close in one task,
\* so onerror and onclose run back to back
SocketError(s) ==
    /\ s \in 1..Len(sockets)
    /\ sockets[s] \in {"CONNECTING", "OPEN"}
    /\ sockets' = AfterSocketError(sockets, s)
    /\ cncStatus' = "Disconnected"
    /\ gcodeFile' = FileAfterClose(gcodeFile)
    /\ gcodeProgress' = 0
    /\ websocketRef' = 0
    /\ DeviceTick
    /\ parseLog' = parseLog
    /\ lastOp' = "ws.onerror"
    /\ alerted' = FALSE
    /\ handledSrc' = "none"
    /\ UNCHANGED <<dustCollectorOn, camera, cameraStream, cameraRequests, wsAddress>>

\* onclose: after close(), after an error, or closed by the bridge
SocketClose(s) ==
    /\ s \in 1..Len(sockets)
    /\ sockets[s] \in {"OPEN", "CLOSING"}
    /\ sockets' = [sockets EXCEPT ![s] = "CLOSED"]
    /\ cncStatus' = "Disconnected"
    /\ gcodeFile' = FileAfterClose(gcodeFile)
    /\ gcodeProgress' = 0
    /\ websocketRef' = 0
    /\ DeviceTick
    /\ parseLog' = parseLog
    /\ lastOp' = "ws.onclose"
    /\ alerted' = FALSE
    /\ handledSrc' = "none"
    /\ UNCHANGED <<dustCollectorOn, camera, cameraStream, cameraRequests, wsAddress>>

CncCommands == {"play", "pause", "stop"}

\* the disabled attributes of the play, pause and stop buttons
CncButtonEnabled(command) ==
    CASE command = "play" -> gcodeFile # "null" /\ cncStatus # "Running" /\ isCncConnected
      [] command = "pause" -> cncStatus = "Running"
      [] command = "stop" -> cncStatus \in {"Running", "Paused"}

\* sendCncCommand: if (websocketRef.current?.readyState === WebSocket.OPEN) send
sendCncCommand(command) ==
    IF websocketRef # 0 /\ sockets[websocketRef] = "OPEN"
    THEN outbox' = Append(outbox, [socket |-> websocketRef, command |-> command])
    ELSE outbox' = outbox

CommandTick ==
    /\ Tick
    /\ Len(outbox) < MaxCommands
    /\ alerted' = FALSE
    /\ handledSrc' = "none"
    /\ UNCHANGED <<lightVars, voiceVars, scanVars, confirmed, burst>>
    /\ UNCHANGED <<dustCollectorOn, camera, cameraStream, cameraRequests, cncStatus,
                   gcodeFile, gcodeProgress, wsAddress, sockets, websocketRef, parseLog>>

\* handleCncPlay / handleCncPause / handleCncStop from their buttons
HandleCncCommand(command) ==
    /\ CncButtonEnabled(command)
    /\ sendCncCommand(command)
    /\ CommandTick
    /\ lastOp' = "handleCncCommand"

\* tool calls startCncCycle / pauseCncCycle / stopCncCycle
CncToolCall(command) ==
    /\ Len(voiceSessions) > 0
    /\ activeTab = "workshop"
    /\ SessionOpened
    /\ sendCncCommand(command)
    /\ CommandTick
    /\ lastOp' = "cncToolCall"

----------------------------------------------------------------------------
Next ==
    \/ \E ip \in IpAddresses : SetLightIpAddress(ip)
    \/ HandleConnectLight
    \/ \E ok \in BOOLEAN : ConnectResponse(ok)
    \/ HandleDisconnectLight
    \/ HandleLightPowerToggle
    \/ \E c \in Channels, v \in SliderValues : HandleLightColorChange(c, v)
    \/ \E i \in 1..MaxTimers : LightColorTimeout(i)
    \/ \E i \in 1..MaxInFlight, o \in Outcomes : LightResponse(i, o)
    \/ StartConversation
    \/ \E s \in 1..MaxSessions : SessionOpen(s)
    \/ StopConversation
    \/ \E a \in VoiceLightArgs : ControlLights(a)

Spec == Init /\ [][Next]_vars

NextDevices ==
    \/ Next
    \/ ToggleDustCollector
    \/ \E pw \in {"on", "off"} : ControlDustCollector(pw)
    \/ ToggleCameraPower
    \/ ToggleCameraRecording
    \/ \E a \in CameraArgs : ControlCamera(a)
    \/ \E ok \in BOOLEAN : CameraAccess(ok)
    \/ \E a \in WsAddresses : SetWsAddress(a)
    \/ ConnectUCCNC
    \/ DisconnectUCCNC
    \/ \E s \in 1..MaxSockets : SocketOpen(s)
    \/ \E s \in 1..MaxSockets, d \in CncMessages : SocketMessage(s, d)
    \/ \E s \in 1..MaxSockets : SocketError(s)
    \/ \E s \in 1..MaxSockets : SocketClose(s)
    \/ \E c \in CncCommands : HandleCncCommand(c)
    \/ \E c \in CncCommands : CncToolCall(c)

InitDevices == InitState /\ KeyStored /\ SwFresh /\ AssistantFresh /\ limit = MaxDeviceSteps /\ activeTab = "workshop"

SpecDevices == InitDevices /\ [][NextDevices]_vars

----------------------------------------------------------------------------
\* The streaming audio bridge of either component

NextAudio ==
    \/ StartConversation
    \/ StopConversation
    \/ \E s \in 1..MaxSessions : SessionOpen(s)
    \/ \E s \in 1..MaxSessions, ok \in BOOLEAN : GetUserMedia(s, ok)
    \/ \E g \in 1..MaxSessions : AudioProcess(g)
    \/ \E s \in 1..MaxSessions : TurnComplete(s)
    \/ \E s \in 1..MaxSessions, how \in {"error", "close"} : SessionEnds(s, how)

InitAudio == InitState /\ KeyStored /\ SwFresh /\ AssistantFresh /\ limit = MaxSteps /\ activeTab \in Tabs

SpecAudio == InitAudio /\ [][NextAudio]_vars

----------------------------------------------------------------------------
\* NetworkScanner

Hosts == 1..MaxHosts
ProbeOutcomes == {"ok", "notOk", "networkError", "timeout"}
Pending(ps) == {h \in Hosts : ps[h] = "pending"}

\* a step of the scanner leaves everything else alone, but for the address it selects
ScanTick ==
    /\ UNCHANGED <<limit, steps, confirmed, burst, voiceVars, deviceVars, keyVars, otherVars>>
    /\ handledSrc' = "none"
    /\ UNCHANGED <<lights, isUpdatingLight, lightConnectionStatus, connecting,
                   inflight, timers, lightColorTimeoutRef>>
    /\ alerted' = FALSE

\* a global abort that reaches none of the per-request controllers
OnGlobalAbortUnheard(ps) == ps

\* onGlobalAbort: perRequestControllers.forEach(controller => controller.abort());
\* every pending fetch rejects and its catch / finally run before the next event
OnGlobalAbort(ps) == [h \in Hosts |-> IF ps[h] = "pending" THEN "aborted" ELSE ps[h]]

\* results that also keep the hosts that answered with an error status
CollectsAnyResponse(outcome) == outcome \in {"ok", "notOk"}

\* if (response.ok) setScanResults(prev => [...prev, ip])
Collects(outcome) == outcome = "ok"

\* a scan whose isScanning flag is reset by the Stop button only
ScanningAfterSettleKept(ps) == TRUE

\* await Promise.allSettled(promises); finally setIsScanning(false)
ScanningAfterSettle(ps) == Pending(ps) # {}

\* onClick={() => setIsScannerOpen(true)} disabled={!isLightConnectable}: a fresh mount
OpenScanner ==
    /\ ~isScannerOpen
    /\ isLightConnectable
    /\ isScannerOpen' = TRUE
    /\ isScanning' = FALSE
    /\ scanProgress' = 0
    /\ scanResults' = << >>
    /\ scanAbortControllerRef' = "null"
    /\ UNCHANGED <<probes, issued, abortedResults, lightIpAddress>>
    /\ ScanTick
    /\ lastOp' = "openScanner"

\* a scan that goes on counting from the progress of the scan before
ProgressAtStartKept(p) == p

\* setScanProgress(0)
ProgressAtStart(p) == 0

\* handleStartScan up to the await: all probes are issued in one loop
HandleStartScan ==
    /\ isScannerOpen
    /\ ~isScanning
    /\ isScanning' = TRUE
    /\ scanProgress' = ProgressAtStart(scanProgress)
    /\ scanResults' = << >>
    /\ scanAbortControllerRef' = "live"
    /\ probes' = [h \in Hosts |-> "pending"]
    /\ issued' = [h \in Hosts |-> 1]
    /\ UNCHANGED <<isScannerOpen, abortedResults, lightIpAddress>>
    /\ ScanTick
    /\ lastOp' = "handleStartScan"

\* one fetch settles: then / catch / finally, and the code after
\* Promise.allSettled when it was the last one
ProbeResponse(h, outcome) ==
    /\ h \in Hosts
    /\ probes[h] = "pending"
    /\ probes' = [probes EXCEPT ![h] = outcome]
    /\ scanResults' = IF Collects(outcome) THEN Append(scanResults, h) ELSE scanResults
    /\ scanProgress' = scanProgress + 1
    /\ isScanning' = (isScanning /\ ScanningAfterSettle(probes'))
    /\ UNCHANGED <<isScannerOpen, scanAbortControllerRef, issued, abortedResults,
                   lightIpAddress>>
    /\ ScanTick
    /\ lastOp' = "probeResponse"

\* handleStopScan: abort, then the rejections of the pending fetches
HandleStopScan ==
    /\ isScannerOpen
    /\ isScanning
    /\ scanAbortControllerRef' = "aborted"
    /\ probes' = OnGlobalAbort(probes)
    /\ scanProgress' = scanProgress + Cardinality(Pending(probes) \ Pending(probes'))
    /\ isScanning' = FALSE
    /\ abortedResults' = scanResults
    /\ UNCHANGED <<isScannerOpen, scanResults, issued, lightIpAddress>>
    /\ ScanTick
    /\ lastOp' = "handleStopScan"

\* unmount (Close button, or after an address was selected): the effect
\* cleanup aborts; the state of the unmounted component is gone
Unmount ==
    /\ isScannerOpen' = FALSE
    /\ scanAbortControllerRef' =
           IF scanAbortControllerRef = "null" THEN "null" ELSE "aborted"
    /\ probes' = OnGlobalAbort(probes)
    /\ isScanning' = FALSE
    /\ scanProgress' = 0
    /\ scanResults' = << >>
    /\ abortedResults' = << >>
    /\ issued' = issued

CloseScanner ==
    /\ isScannerOpen
    /\ Unmount
    /\ lightIpAddress' = lightIpAddress
    /\ ScanTick
    /\ lastOp' = "closeScanner"

\* handleIpSelect: onSelectIp(`http://${ip}`); onClose()
HandleIpSelect(i) ==
    /\ isScannerOpen
    /\ i \in 1..Len(scanResults)
    /\ lightIpAddress' = "http://192.168.1.50"
    /\ Unmount
    /\ ScanTick
    /\ lastOp' = "handleIpSelect"

NextScan ==
    \/ OpenScanner
    \/ HandleStartScan
    \/ \E h \in Hosts, o \in ProbeOutcomes : ProbeResponse(h, o)
    \/ HandleStopScan
    \/ CloseScanner
    \/ \E i \in Hosts : HandleIpSelect(i)

SpecScan == Init /\ [][NextScan]_vars

\* every fetch settles: by a response, a failure or its own 1500 ms timeout
SpecScanFair == SpecScan /\ WF_vars(\E h \in Hosts, o \in ProbeOutcomes : ProbeResponse(h, o))

----------------------------------------------------------------------------
\* The operations that make requests, with their outcomes: light connect,
\* light commands, CNC socket and scan probes

NextRequests ==
    \/ HandleConnectLight
    \/ \E ok \in BOOLEAN : ConnectResponse(ok)
    \/ HandleLightPowerToggle
    \/ \E c \in Channels, v \in SliderValues : HandleLightColorChange(c, v)
    \/ \E i \in 1..MaxTimers : LightColorTimeout(i)
    \/ \E i \in 1..MaxInFlight, o \in Outcomes : LightResponse(i, o)
    \/ ConnectUCCNC
    \/ \E s \in 1..MaxSockets : SocketOpen(s)
    \/ \E s \in 1..MaxSockets : SocketError(s)
    \/ \E s \in 1..MaxSockets : SocketClose(s)
    \/ OpenScanner
    \/ HandleStartScan
    \/ \E h \in Hosts, o \in ProbeOutcomes : ProbeResponse(h, o)

InitRequests == InitState /\ KeyStored /\ SwFresh /\ AssistantFresh /\ limit = MaxRequestSteps /\ activeTab = "workshop"

SpecRequests == InitRequests /\ [][NextRequests]_vars

----------------------------------------------------------------------------
\* WorkshopControl is unmounted (the user opens another tab).  The state of
\* the unmounted instance is frozen: its setters do nothing.  Its refs, its
\* live session and the requests it had in flight go on.

Mounted == activeTab = "workshop"

\* the cleanups of the effects, and those of the NetworkScanner if it is open
UnmountWorkshopControl ==
    /\ Mounted
    /\ activeTab' = "analyzer"
    /\ sockets' = IF websocketRef # 0 /\ sockets[websocketRef] \in {"CONNECTING", "OPEN"}
                  THEN [sockets EXCEPT ![websocketRef] = "CLOSING"]
                  ELSE sockets
    /\ timers' = ClearTimeout(timers, lightColorTimeoutRef)
    /\ IF isScannerOpen THEN Unmount ELSE UNCHANGED scanVars
    /\ Tick
    /\ lastOp' = "unmount"
    /\ alerted' = FALSE
    /\ handledSrc' = "none"
    /\ burst' = [burst EXCEPT !.active = FALSE]
    /\ UNCHANGED <<lights, isUpdatingLight, lightIpAddress, lightConnectionStatus,
                   connecting, inflight, lightColorTimeoutRef, confirmed>>
    /\ UNCHANGED <<isListening, voiceSessions, sessions, sessionPromise, audioContext,
                   mediaStream, scriptProcessor, queue, frames, captured, ended, stopRan>>
    /\ UNCHANGED <<dustCollectorOn, camera, cameraStream, cameraRequests, cncStatus,
                   gcodeFile, gcodeProgress, wsAddress, websocketRef, outbox, parseLog>>

\* a step of the unmounted instance: no React state changes
UnmountedTick ==
    /\ ~Mounted
    /\ Tick
    /\ handledSrc' = "none"
    /\ UNCHANGED <<lights, isUpdatingLight, lightIpAddress, lightConnectionStatus,
                   timers, lightColorTimeoutRef, confirmed, burst>>
    /\ UNCHANGED <<voiceVars, scanVars>>
    /\ UNCHANGED <<dustCollectorOn, camera, cameraStream, cameraRequests, cncStatus,
                   gcodeFile, gcodeProgress, wsAddress, parseLog>>

\* a response to a request of the unmounted instance: the catch still alerts
ResponseUnmounted(i, outcome) ==
    /\ i \in 1..Len(inflight)
    /\ inflight' = RemoveAt(inflight, i)
    /\ alerted' = (outcome # "ok")
    /\ UnmountedTick
    /\ lastOp' = "responseUnmounted"
    /\ UNCHANGED <<connecting, sockets, websocketRef, outbox>>

\* onclose of a socket of the unmounted instance: websocketRef.current = null
SocketCloseUnmounted(s) ==
    /\ s \in 1..Len(sockets)
    /\ sockets[s] \in {"CONNECTING", "OPEN", "CLOSING"}
    /\ sockets' = [sockets EXCEPT ![s] = "CLOSED"]
    /\ websocketRef' = 0
    /\ alerted' = FALSE
    /\ UnmountedTick
    /\ lastOp' = "socketCloseUnmounted"
    /\ UNCHANGED <<connecting, inflight, outbox>>

\* a controlLights tool call of the session that is still open: the
\* updateLightState of its closure passes its guard and posts
ControlLightsUnmounted(args) ==
    /\ Len(voiceSessions) > 0
    /\ SessionOpened
    /\ Len(inflight) < MaxInFlight
    /\ LET cl == voiceSessions[1]
           originalState == Snapshot(cl, args)
           updatedState == Merge(originalState, args)
           payload == Payload(args, updatedState)
       IN  inflight' = IF Rejected(cl) \/ PayloadEmpty(payload) THEN inflight
                       ELSE Append(inflight,
                                [src |-> "voice", newState |-> args,
                                 originalState |-> originalState,
                                 updatedState |-> updatedState,
                                 payload |-> payload, pre |-> lights])
    /\ alerted' = FALSE
    /\ UnmountedTick
    /\ lastOp' = "controlLightsUnmounted"
    /\ UNCHANGED <<connecting, sockets, websocketRef, outbox>>

\* a CNC tool call of the session that is still open
CncToolCallUnmounted(command) ==
    /\ Len(voiceSessions) > 0
    /\ SessionOpened
    /\ Len(outbox) < MaxCommands
    /\ sendCncCommand(command)
    /\ alerted' = FALSE
    /\ UnmountedTick
    /\ lastOp' = "cncToolCallUnmounted"
    /\ UNCHANGED <<connecting, inflight, sockets, websocketRef>>

NextUnmount ==
    \/ Mounted /\ NextDevices
    \/ UnmountWorkshopControl
    \/ \E i \in 1..MaxInFlight, o \in Outcomes : ResponseUnmounted(i, o)
    \/ \E s \in 1..MaxSockets : SocketCloseUnmounted(s)
    \/ \E a \in VoiceLightArgs : ControlLightsUnmounted(a)
    \/ \E c \in CncCommands : CncToolCallUnmounted(c)

SpecUnmount == InitDevices /\ [][NextUnmount]_vars

----------------------------------------------------------------------------
\* The API key dialog of App (App.tsx, kept as
\* src/workshop-ai-controller/server.js)

\* what the user can type into the input of the dialog
KeyTexts == {"", " ", "k1", " k1 ", "k2"}

\* String.prototype.trim
Trim(t) == CASE t = " " -> ""
             [] t = " k1 " -> "k1"
             [] OTHER -> t

\* generateContent resolves, generateContent rejects (wrong key, no network),
\* or it resolves and localStorage.setItem throws (storage full or denied)
KeyOutcomes == {"ok", "rejected", "storageError"}

KeyTick ==
    /\ steps < limit
    /\ steps' = steps + 1
    /\ limit' = limit
    /\ handledSrc' = "none"
    /\ alerted' = FALSE
    /\ UNCHANGED <<lightVars, voiceVars, deviceVars, scanVars, confirmed, burst, otherVars>>

\* onChange of the input, disabled while verifying
SetKey(text) ==
    /\ showKeyModal
    /\ ~isVerifyingKey
    /\ text # key
    /\ key' = text
    /\ KeyTick
    /\ lastOp' = "setKey"
    /\ UNCHANGED <<localStorage, apiKey, showKeyModal, isVerifyingKey, keyError,
                   keyRequest, keyLog>>

\* ApiKeyModal.handleSubmit and the part of App.handleKeySubmit before the await
HandleKeySubmit ==
    /\ showKeyModal
    /\ Trim(key) # ""
    /\ ~isVerifyingKey
    /\ isVerifyingKey' = TRUE
    /\ keyError' = ""
    /\ keyRequest' = Trim(key)
    /\ KeyTick
    /\ lastOp' = "handleKeySubmit"
    /\ UNCHANGED <<localStorage, apiKey, showKeyModal, key, keyLog>>

\* a handler that stores the key whatever the validation call returned
StoredAfterAnyOutcome(outcome, k, stored) == k

\* localStorage.setItem('gemini-api-key', key) follows the await
StoredAfter(outcome, k, stored) == IF outcome = "ok" THEN k ELSE stored

\* the validation call settles: the rest of the try, the catch, the finally
KeyValidation(outcome) ==
    /\ keyRequest # NoKey
    /\ outcome \in {"ok", "storageError"} => keyRequest \in ValidKeys
    /\ localStorage' = StoredAfter(outcome, keyRequest, localStorage)
    /\ apiKey' = IF outcome = "ok" THEN keyRequest ELSE apiKey
    /\ showKeyModal' = IF outcome = "ok" THEN FALSE ELSE showKeyModal
    /\ keyError' = IF outcome = "ok" THEN keyError ELSE "Invalid API Key"
    /\ isVerifyingKey' = FALSE
    /\ keyRequest' = NoKey
    /\ keyLog' = Append(keyLog, outcome)
    /\ KeyTick
    /\ lastOp' = "keyValidation"
    /\ UNCHANGED key

\* the app after its mount effect (lines 212-219): a stored key is taken as
\* it is, without one the dialog opens
InitKey ==
    /\ InitState
    /\ SwFresh
    /\ AssistantFresh
    /\ limit = MaxKeySteps
    /\ activeTab = "workshop"
    /\ localStorage \in {NoKey, "k1"}
    /\ apiKey = localStorage
    /\ showKeyModal = (localStorage = NoKey)
    /\ isVerifyingKey = FALSE
    /\ keyError = ""
    /\ key = ""
    /\ keyRequest = NoKey
    /\ keyLog = << >>

NextKey ==
    \/ \E t \in KeyTexts : SetKey(t)
    \/ HandleKeySubmit
    \/ \E o \in KeyOutcomes : KeyValidation(o)
    \/ StartConversation
    \/ StopConversation

SpecKey == InitKey /\ [][NextKey]_vars

----------------------------------------------------------------------------
\* The mock backend (src/workshop-ai-controller/server.js, lines 1-136): one
\* step per request handler and one per setTimeout callback

\* req.body.power: valid, invalid, or absent
PowerBodies == {"on", "off", "dim", "undefined"}

\* req.body of a colour request: r, g, b, each a number or absent
ColorBodies ==
    { [r |-> 255, g |-> 100, b |-> 50],
      [r |-> 50, g |-> 50, b |-> 50],
      [r |-> Undefined, g |-> 100, b |-> 50],
      [r |-> 255, g |-> 100, b |-> Undefined],
      [r |-> Undefined, g |-> Undefined, b |-> Undefined] }

ServerTick ==
    /\ steps < limit
    /\ steps' = steps + 1
    /\ limit' = limit
    /\ handledSrc' = "none"
    /\ alerted' = FALSE
    /\ UNCHANGED <<lightVars, voiceVars, deviceVars, scanVars, keyVars, confirmed, burst,
                   swVars, assistantVars>>

\* GET /api/auth/google
AuthGoogle ==
    /\ response' = [status |-> 200, to |-> "auth"]
    /\ ServerTick
    /\ lastOp' = "authGoogle"
    /\ UNCHANGED <<googleToken, lightState, delayed>>

\* POST /api/auth/verify
AuthVerify ==
    /\ googleToken' = "simulated_google_access_token"
    /\ response' = [status |-> 200, to |-> "verify"]
    /\ ServerTick
    /\ lastOp' = "authVerify"
    /\ UNCHANGED <<lightState, delayed>>

\* POST /api/auth/logout
AuthLogout ==
    /\ googleToken' = "null"
    /\ response' = [status |-> 200, to |-> "logout"]
    /\ ServerTick
    /\ lastOp' = "authLogout"
    /\ UNCHANGED <<lightState, delayed>>

\* POST /api/lights/power up to setTimeout
LightsPower(power) ==
    /\ IF googleToken = "null"
       THEN response' = [status |-> 401, to |-> "power"] /\ delayed' = delayed
       ELSE IF power # "on" /\ power # "off"
       THEN response' = [status |-> 400, to |-> "power"] /\ delayed' = delayed
       ELSE /\ Len(delayed) < MaxDelayed
            /\ delayed' = Append(delayed, [to |-> "power", power |-> power, color |-> NoColor])
            /\ response' = response
    /\ ServerTick
    /\ lastOp' = "lightsPower"
    /\ UNCHANGED <<googleToken, lightState>>

\* POST /api/lights/color up to setTimeout
LightsColor(c) ==
    /\ IF googleToken = "null"
       THEN response' = [status |-> 401, to |-> "color"] /\ delayed' = delayed
       ELSE IF c.r = Undefined \/ c.g = Undefined \/ c.b = Undefined
       THEN response' = [status |-> 400, to |-> "color"] /\ delayed' = delayed
       ELSE /\ Len(delayed) < MaxDelayed
            /\ delayed' = Append(delayed, [to |-> "color", power |-> "undefined", color |-> c])
            /\ response' = response
    /\ ServerTick
    /\ lastOp' = "lightsColor"
    /\ UNCHANGED <<googleToken, lightState>>

\* timers of one delay fire in the order they were set
FirstOfItsKind(i) == \A j \in 1..(i - 1) : delayed[j].to # delayed[i].to

\* a callback that answers SUCCESS and leaves the power as it was
PowerAppliedKept(requested, current) == current

\* lightState.power = power
PowerApplied(requested, current) == requested

\* the callback of a power request: Math.random() > 0.95 fails
PowerTimeout(i, fails) ==
    /\ i \in 1..Len(delayed)
    /\ delayed[i].to = "power"
    /\ FirstOfItsKind(i)
    /\ delayed' = RemoveAt(delayed, i)
    /\ IF fails
       THEN /\ response' = [status |-> 500, to |-> "power"]
            /\ lightState' = lightState
       ELSE /\ lightState' = [lightState EXCEPT
                               !.power = PowerApplied(delayed[i].power, lightState.power)]
            /\ response' = [status |-> 200, to |-> "power"]
    /\ ServerTick
    /\ lastOp' = "powerTimeout"
    /\ UNCHANGED googleToken

\* the callback of a colour request
ColorTimeout(i) ==
    /\ i \in 1..Len(delayed)
    /\ delayed[i].to = "color"
    /\ FirstOfItsKind(i)
    /\ delayed' = RemoveAt(delayed, i)
    /\ lightState' = [lightState EXCEPT !.color = delayed[i].color]
    /\ response' = [status |-> 200, to |-> "color"]
    /\ ServerTick
    /\ lastOp' = "colorTimeout"
    /\ UNCHANGED googleToken

InitServer == InitState /\ KeyStored /\ SwFresh /\ AssistantFresh /\ limit = MaxServerSteps /\ activeTab = "workshop"

NextServer ==
    \/ AuthGoogle
    \/ AuthVerify
    \/ AuthLogout
    \/ \E p \in PowerBodies : LightsPower(p)
    \/ \E c \in ColorBodies : LightsColor(c)
    \/ \E i \in 1..MaxDelayed, f \in BOOLEAN : PowerTimeout(i, f)
    \/ \E i \in 1..MaxDelayed : ColorTimeout(i)

SpecServer == InitServer /\ [][NextServer]_vars

----------------------------------------------------------------------------
\* The service worker (src/workshop-ai-controller/sw.js)

\* self.location.origin and the urls of the requests, as the pieces of their text
Origin == <<"https://workshop.local">>
UrlRoot == <<"https://workshop.local", "/">>
UrlApp == <<"https://workshop.local", "/App.tsx">>
UrlLogo == <<"https://workshop.local", "/logo.png">>
UrlDevice == <<"https://workshop.local", ":8443", "/status">>
UrlCdn == <<"https://aistudiocdn.com", "/react.js">>
Urls == {UrlRoot, UrlApp, UrlLogo, UrlDevice, UrlCdn}

\* urlsToCache (its first entries)
urlsToCache == {UrlRoot, UrlApp}

\* scheme, host and port of a url
OriginOf(u) == SubSeq(u, 1, Len(u) - 1)

\* String.prototype.startsWith
StartsWith(u, prefix) == Len(u) >= Len(prefix) /\ SubSeq(u, 1, Len(prefix)) = prefix

\* what the network answers: a status, 0 for an opaque response, or a failure
NetworkAnswers == {200, 404, 0, -1}

SwTick ==
    /\ steps < limit
    /\ steps' = steps + 1
    /\ limit' = limit
    /\ handledSrc' = "none"
    /\ alerted' = FALSE
    /\ UNCHANGED <<lightVars, voiceVars, deviceVars, scanVars, keyVars, confirmed, burst,
                   backendVars, assistantVars>>

\* install: caches.open(CACHE_NAME) creates the cache, addAll fills it or rejects
Install(ok) ==
    /\ swState = "parsed"
    /\ swState' = IF ok THEN "installed" ELSE "redundant"
    /\ caches' = [caches EXCEPT ![CACHE_NAME] =
                      IF ok THEN Cache(@.urls \cup urlsToCache) ELSE Cache(@.urls)]
    /\ UNCHANGED <<served, deleted>>
    /\ SwTick
    /\ lastOp' = "install"

\* an activate step that deletes nothing
KeptByActivateAll(name) == TRUE

\* cacheWhitelist.indexOf(cacheName) === -1 deletes the cache
KeptByActivate(name) == name = CACHE_NAME

\* activate: every cache of caches.keys() that is not whitelisted is deleted
Activate ==
    /\ swState = "installed"
    /\ swState' = "activated"
    /\ caches' = [n \in CacheNames |-> IF KeptByActivate(n) THEN caches[n] ELSE Absent]
    /\ deleted' = {n \in CacheNames : caches[n].exists /\ ~caches'[n].exists}
    /\ served' = served
    /\ SwTick
    /\ lastOp' = "activate"

\* caches.match(request): an entry in any cache of the origin
Matches(url) == \E n \in CacheNames : caches[n].exists /\ url \in caches[n].urls

\* caches.open(CACHE_NAME).then(cache => cache.put(request, response))
Put(url) ==
    [caches EXCEPT ![CACHE_NAME] = Cache(@.urls \cup {url})]

\* the fetch listener, with the fetch and the put it starts
FetchEvent(method, url, answer) ==
    /\ swState = "activated"
    /\ IF method # "GET"
       THEN \* not handled: the browser makes the request itself
            /\ served' = [method |-> method, url |-> url, from |-> "unhandled",
                          status |-> answer, stored |-> FALSE]
            /\ caches' = caches
       ELSE IF ~StartsWith(url, Origin)
       THEN /\ served' = [method |-> method, url |-> url, from |-> "network",
                          status |-> answer, stored |-> FALSE]
            /\ caches' = caches
       ELSE IF Matches(url)
       THEN /\ served' = [method |-> method, url |-> url, from |-> "cache",
                          status |-> 200, stored |-> FALSE]
            /\ caches' = caches
       ELSE /\ served' = [method |-> method, url |-> url, from |-> "network",
                          status |-> answer, stored |-> answer = 200]
            /\ caches' = IF answer = 200 THEN Put(url) ELSE caches
    /\ UNCHANGED <<swState, deleted>>
    /\ SwTick
    /\ lastOp' = "fetch"

\* the page is opened in a browser that may hold the caches of the version before
InitSw ==
    /\ InitState
    /\ KeyStored
    /\ AssistantFresh
    /\ limit = MaxSwSteps
    /\ activeTab = "workshop"
    /\ swState = "parsed"
    /\ caches \in {[n \in CacheNames |-> Absent],
                   [n \in CacheNames |-> IF n = OldCacheName THEN Cache({UrlRoot, UrlLogo})
                                          ELSE Absent]}
    /\ served = NotServed
    /\ deleted = {}

NextSw ==
    \/ \E ok \in BOOLEAN : Install(ok)
    \/ Activate
    \/ \E m \in {"GET", "POST"}, u \in Urls, a \in NetworkAnswers : FetchEvent(m, u, a)

SpecSw == InitSw /\ [][NextSw]_vars

----------------------------------------------------------------------------
\* The research assistant (components/ResearchAssistant.tsx)

\* String.prototype.trim on the texts of the input
TrimInput(t) == CASE t = " " -> ""
                  [] t = " q " -> "q"
                  [] OTHER -> t

UserMessage(text) == [role |-> "user", text |-> text]
\* response.text of a resolved generateContent call
ModelMessage(contents) == [role |-> "model", text |-> <<"answer to", contents>>]

AssistantTick ==
    /\ steps < limit
    /\ steps' = steps + 1
    /\ limit' = limit
    /\ handledSrc' = "none"
    /\ alerted' = FALSE
    /\ UNCHANGED <<lightVars, voiceVars, deviceVars, scanVars, keyVars, confirmed, burst,
                   backendVars, swVars>>

\* disabled={loading || !isKeyAvailable} of the input
InputDisabled == loading \/ ~isKeyAvailable

\* disabled={loading || !input.trim() || !isKeyAvailable} of the send button
SendDisabled == loading \/ TrimInput(input) = "" \/ ~isKeyAvailable

\* onChange of the input: the user types a blank or a non-blank text
SetInput(text) ==
    /\ ~InputDisabled
    /\ input' = text
    /\ UNCHANGED <<API_KEY, isKeyAvailable, messages, loading, error, requests>>
    /\ AssistantTick
    /\ lastOp' = "setInput"

\* handleSend up to its await
HandleSend ==
    IF TrimInput(input) = "" \/ API_KEY = NoKey
    THEN /\ error' = IF API_KEY = NoKey
                     THEN "API Key is not configured. Research is disabled."
                     ELSE error
         /\ UNCHANGED <<API_KEY, isKeyAvailable, messages, input, loading, requests>>
    ELSE /\ messages' = Append(messages, UserMessage(input))
         /\ input' = ""
         /\ loading' = TRUE
         /\ error' = ""
         /\ requests' = Append(requests, input)
         /\ UNCHANGED <<API_KEY, isKeyAvailable>>

\* onClick of the send button
SendClick ==
    /\ ~SendDisabled
    /\ HandleSend
    /\ AssistantTick
    /\ lastOp' = "sendClick"

\* onKeyPress of the input with the Enter key: !loading && handleSend()
EnterKey ==
    /\ ~InputDisabled
    /\ IF ~loading THEN HandleSend ELSE UNCHANGED assistantVars
    /\ AssistantTick
    /\ lastOp' = "enterKey"

\* a finally block that leaves loading as it was
LoadingAfterRequestKept(l) == l

\* finally { setLoading(false) }
LoadingAfterRequest(l) == FALSE

\* handleSend after the await: generateContent resolved (ok) or rejected
AssistantResponse(i, ok) ==
    /\ i \in 1..Len(requests)
    /\ requests' = SubSeq(requests, 1, i - 1) \o SubSeq(requests, i + 1, Len(requests))
    /\ messages' = IF ok THEN Append(messages, ModelMessage(requests[i])) ELSE messages
    /\ error' = IF ok THEN error ELSE "An error occurred. Please try again."
    /\ loading' = LoadingAfterRequest(loading)
    /\ UNCHANGED <<API_KEY, isKeyAvailable, input>>
    /\ AssistantTick
    /\ lastOp' = IF ok THEN "assistantReply" ELSE "assistantError"

\* a mounted assistant after its mount effect, in a build with or without a key
InitAssistant ==
    /\ InitState
    /\ KeyStored
    /\ SwFresh
    /\ limit = MaxAssistantSteps
    /\ activeTab = "research"
    /\ API_KEY \in {NoKey, "k1"}
    /\ isKeyAvailable = (API_KEY # NoKey)
    /\ messages = << >>
    /\ input = ""
    /\ loading = FALSE
    /\ error = ""
    /\ requests = << >>

NextAssistant ==
    \/ \E text \in {"", " ", "q", " q "} : SetInput(text)
    \/ SendClick
    \/ EnterKey
    \/ \E i \in 1..Len(requests), ok \in BOOLEAN : AssistantResponse(i, ok)

SpecAssistant == InitAssistant /\ [][NextAssistant]_vars

----------------------------------------------------------------------------
\* Properties of the light reconciler

FailureStep == lastOp' = "lightResponseFailed" /\ steps' # steps
SuccessStep == lastOp' = "lightResponseOk" /\ steps' # steps
CommandSources == {"handleLightPowerToggle", "lightColorTimeout", "controlLights"}
CommandStep == lastOp' \in CommandSources /\ steps' # steps
\* the step issued a POST /state; the request is the last element of inflight'
IssueStep == CommandStep /\ Len(inflight') = Len(inflight) + 1
Issued == inflight'[Len(inflight')]

\* C1: after a failed light command (toggle, debounced slider or voice) has
\* been handled, lights equals the lights that held immediately before that
\* command was applied.
C1_FailureRestoresPreCommandState ==
    [][FailureStep => \E i \in 1..Len(inflight) :
                          /\ inflight' = RemoveAt(inflight, i)
                          /\ lights' = inflight[i].pre]_vars

\* C2: in every reachable state at most one POST /state is in flight.
C2_AtMostOneInFlight == Len(inflight) <= 1

\* C3: a light command requested while another one is outstanding is a
\* no-op: lights and the connection status keep their values and no request
\* is sent.
C3_SecondCommandIsNoOp ==
    [][(CommandStep /\ Len(inflight) > 0) =>
          /\ lights' = lights
          /\ lightConnectionStatus' = lightConnectionStatus
          /\ inflight' = inflight]_vars

\* C4: a run of slider changes made while the light is Connected and idle,
\* each within the debounce window of the previous one, produces exactly one
\* POST /state: when the timer fires, one request is issued, it carries the
\* final r, g, b of the run and no power, and no further timer is left to
\* fire; at no time is more than one timer armed.
C4_DebounceSendsFinalValueOnce ==
    /\ [][(lastOp' = "lightColorTimeout" /\ steps' # steps /\ burst.clean) =>
             /\ Len(inflight') = Len(inflight) + 1
             /\ Issued.payload = [power |-> "undefined", color |-> burst.final]
             /\ Len(timers') = 0]_vars
    /\ [](Len(timers) <= 1)

C4_Witness ==
    /\ lastOp = "lightColorTimeout"
    /\ burst.clean
    /\ burst.final = [r |-> 40, g |-> 40, b |-> 180]
    /\ Len(inflight) = 1
    /\ inflight[1].payload.color = [r |-> 40, g |-> 40, b |-> 180]
    /\ Len(timers) = 0

\* C5: when a light command fails (not OK, network error or timeout), the
\* connection status becomes Error and a message is raised; for a power
\* toggle the power shown afterwards is the power from before the toggle.
C5_FailureSetsErrorAndAlerts ==
    [][FailureStep =>
          /\ lightConnectionStatus' = "Error"
          /\ alerted'
          /\ \E i \in 1..Len(inflight) :
                /\ inflight' = RemoveAt(inflight, i)
                /\ handledSrc' = inflight[i].src
                /\ handledSrc' = "toggle" => lights'.power = inflight[i].pre.power]_vars

C5_Witness ==
    /\ lastOp = "lightResponseFailed"
    /\ handledSrc = "toggle"
    /\ lightConnectionStatus = "Error"
    /\ alerted
    /\ lights.power = "on"
    /\ confirmed.power = "on"
    /\ Len(inflight) = 0

\* C6: whenever no light command is in flight and no debounce timer is
\* pending, lights equals the state carried by the last successful command
\* (or the initial state).
C6_LightsEqualConfirmedWhenIdle ==
    (Len(inflight) = 0 /\ Len(timers) = 0) => lights = confirmed

\* C7 (as stated): when a light command succeeds, lights equals the optimistic
\* state of that command, the connection status is Connected and
\* isUpdatingLight is cleared.
C7_SuccessKeepsOptimisticAndConnected ==
    [][SuccessStep => \E i \in 1..Len(inflight) :
                          /\ inflight' = RemoveAt(inflight, i)
                          /\ lights' = inflight[i].updatedState
                          /\ lightConnectionStatus' = "Connected"
                          /\ ~isUpdatingLight']_vars

\* C7 (amended): handling a successful response changes neither lights nor
\* the connection status and clears isUpdatingLight.
C7_SuccessLeavesStateAndClearsFlag ==
    [][SuccessStep =>
          /\ lights' = lights
          /\ lightConnectionStatus' = lightConnectionStatus
          /\ ~isUpdatingLight']_vars

C7_Witness ==
    /\ lastOp = "lightResponseOk"
    /\ lights.power = "on"
    /\ confirmed = lights
    /\ lightConnectionStatus = "Disconnected"
    /\ ~isUpdatingLight

\* the closure that ran updateLightState in a command step read lights = l
ClosureRead(l) ==
    \/ lastOp' = "handleLightPowerToggle" /\ l = lights
    \/ lastOp' = "lightColorTimeout" /\
          \E i \in 1..Len(timers) : timers' = RemoveAt(timers, i) /\ l = timers[i].lights
    \/ lastOp' = "controlLights" /\ l = voiceSessions[1].lights

----------------------------------------------------------------------------
\* Properties of the device state as a whole

\* the steps in which updateLightState runs (up to or after its await)
ReconcilerOps == CommandSources \cup {"lightResponseOk", "lightResponseFailed"}
CncState == <<cncStatus, gcodeFile, gcodeProgress>>
DeviceState == <<lights, camera, dustCollectorOn, CncState>>

\* C9 (as stated): device state (lights, camera, dust collector, CNC) is
\* written only by the reconciler, never directly by a slider handler, a
\* button handler, a voice tool call or a socket message.
C9_OnlyReconcilerWritesDeviceState ==
    [][DeviceState' # DeviceState => lastOp' \in ReconcilerOps]_vars

\* C9 (amended): lights is written only by updateLightState and by the
\* direct write of the colour-slider handler; camera, dust collector and CNC
\* state are written directly by their buttons, by voice tool calls, by the
\* camera effect and by socket events.
C9_WritersOfDeviceState ==
    [][/\ lights' # lights => lastOp' \in ReconcilerOps \cup {"handleLightColorChange"}
       /\ camera' # camera =>
             lastOp' \in {"toggleCameraPower", "toggleCameraRecording",
                          "controlCamera", "cameraAccess"}
       /\ dustCollectorOn' # dustCollectorOn =>
             lastOp' \in {"toggleDustCollector", "controlDustCollector"}
       /\ CncState' # CncState =>
             lastOp' \in {"connectUCCNC", "ws.onmessage", "ws.onerror", "ws.onclose"}]_vars

C9_Witness ==
    /\ lastOp = "handleLightColorChange"
    /\ lights # confirmed
    /\ Len(inflight) = 0
    /\ camera.power
    /\ dustCollectorOn

\* the steps that handle the outcome of a request or a socket event
OutcomeOps == {"connectResponse", "lightResponseOk", "lightResponseFailed",
               "ws.onopen", "ws.onmessage", "ws.onerror", "ws.onclose"}

\* C10 (as stated): every change of the light or CNC connection status is
\* made by the outcome of a request or by a socket event, never directly by
\* a UI action.
C10_StatusChangesOnlyByOutcomes ==
    [][(lightConnectionStatus' # lightConnectionStatus \/ cncStatus' # cncStatus)
          => lastOp' \in OutcomeOps]_vars

\* C10 (amended): the light status becomes Connected or Error only as the
\* outcome of a request and the CNC status becomes Idle, Running, Paused or
\* Disconnected only in a socket event; the UI sets Connecting directly when
\* a connect is clicked (light and CNC) and the light's Disconnected directly
\* when disconnect is clicked.
C10_StatusChangesByOutcomeOrConnectClick ==
    [][/\ lightConnectionStatus' # lightConnectionStatus =>
             \/ /\ lastOp' \in {"connectResponse", "lightResponseFailed"}
                /\ lightConnectionStatus' \in {"Connected", "Error"}
             \/ /\ lastOp' = "handleConnectLight"
                /\ lightConnectionStatus' = "Connecting"
             \/ /\ lastOp' = "handleDisconnectLight"
                /\ lightConnectionStatus' = "Disconnected"
       /\ cncStatus' # cncStatus =>
             \/ lastOp' \in {"ws.onmessage", "ws.onerror", "ws.onclose"}
             \/ /\ lastOp' = "connectUCCNC"
                /\ cncStatus' = "Connecting"]_vars

C10_Witness ==
    /\ lastOp = "handleDisconnectLight"
    /\ lightConnectionStatus = "Disconnected"
    /\ connecting = 0
    /\ Len(inflight) = 0
    /\ cncStatus = "Connecting"

----------------------------------------------------------------------------
\* Properties of the network scanner

Settled(ps) == Pending(ps) = {}

\* C11: once a scan was aborted (Stop button or unmount) no probe of it is
\* outstanding, none is issued, and the results shown are those collected
\* before the abort.
C11_AbortSettlesProbesAndFreezesResults ==
    scanAbortControllerRef = "aborted" =>
        /\ Settled(probes)
        /\ ~isScanning
        /\ \A h \in Hosts : issued[h] = 1
        /\ isScannerOpen => scanResults = abortedResults

C11_Witness ==
    /\ scanAbortControllerRef = "aborted"
    /\ isScannerOpen
    /\ Len(scanResults) = 1
    /\ \E h \in Hosts : probes[h] = "aborted"

\* C12: a scan issues one probe per host suffix and none twice, and an
\* address is among the results only if its probe returned an OK response.
C12_OneProbePerHostAndOnlyOkCollected ==
    /\ \A h \in Hosts : issued[h] <= 1
    /\ isScanning => \A h \in Hosts : issued[h] = 1
    /\ \A i \in 1..Len(scanResults) : probes[scanResults[i]] = "ok"
    /\ \A i, j \in 1..Len(scanResults) : scanResults[i] = scanResults[j] => i = j

C12_Witness ==
    /\ ~isScanning
    /\ Len(scanResults) = 1
    /\ \E h \in Hosts : probes[h] = "notOk"
    /\ \E h \in Hosts : probes[h] = "timeout"

\* C13: a started scan eventually shows isScanning = false with every probe
\* settled, whatever the hosts answer.
C13_ScanTerminates == isScanning ~> (~isScanning /\ Settled(probes))

C13_Witness ==
    /\ isScannerOpen
    /\ ~isScanning
    /\ scanProgress = MaxHosts
    /\ scanResults = << >>
    /\ \A h \in Hosts : probes[h] \in {"networkError", "timeout"}

----------------------------------------------------------------------------
\* Properties of the streaming audio bridge

Sessions == DOMAIN sessions

\* nothing acquired by a conversation is still held
AudioReleased ==
    /\ ~isListening
    /\ \A s \in Sessions :
        /\ sessions[s].mediaStream # "live"
        /\ sessions[s].graph # "connected"
        /\ sessions[s].audioContext # "running"
        /\ sessions[s].outputAudioContext # "running"

\* C14: however the conversation ended (stop button, session error, session
\* close, microphone failure, turn complete in the image analyzer), the
\* microphone is stopped, the nodes are disconnected, both audio contexts are
\* closed and isListening is false.
C14_EveryEndReleasesAllAudio == ended # "none" => AudioReleased

ResourceKinds == {"session", "mediaStream", "audioContext", "outputAudioContext"}

Acquired(k) ==
    Cardinality({s \in Sessions :
        CASE k = "session" -> TRUE
          [] k = "mediaStream" -> sessions[s].mediaStream \in {"live", "stopped"}
          [] k = "audioContext" -> sessions[s].audioContext # "none"
          [] k = "outputAudioContext" -> sessions[s].outputAudioContext # "none"})

Released(k) ==
    Cardinality({s \in Sessions :
        CASE k = "session" -> sessions[s].socket = "closed"
          [] k = "mediaStream" -> sessions[s].mediaStream = "stopped"
          [] k = "audioContext" -> sessions[s].audioContext = "closed"
          [] k = "outputAudioContext" -> sessions[s].outputAudioContext = "closed"})

\* no conversation is running and nothing of one is still to come
Quiescent ==
    /\ ~isListening
    /\ \A s \in Sessions : /\ sessions[s].socket = "closed"
                           /\ sessions[s].mediaStream # "requested"

\* C15: every session, microphone stream and audio context that was acquired
\* is released, once, by the time its conversation is over.
C15_EachResourceReleasedOnce ==
    /\ \A k \in ResourceKinds : Released(k) <= Acquired(k)
    /\ Quiescent => \A k \in ResourceKinds : Released(k) = Acquired(k)

\* C16: the frames handed to the session are in capture order, each was sent
\* to an active session, and none after stopConversation had run.
C16_FramesInOrderWhileActive ==
    /\ \A i, j \in 1..Len(frames) : i < j => frames[i].n < frames[j].n
    /\ \A i \in 1..Len(frames) : frames[i].active /\ ~frames[i].stopped

----------------------------------------------------------------------------
\* Properties of failure handling

\* the step made a request or opened a connection
RequestMade ==
    \/ Len(inflight') > Len(inflight)
    \/ connecting' > connecting
    \/ Len(sockets') > Len(sockets)
    \/ \E h \in Hosts : probes[h] # "pending" /\ probes'[h] = "pending"

\* the handlers of user actions that make requests (the debounce timer is
\* armed by a slider move)
RequestingOps ==
    {"handleConnectLight", "handleLightPowerToggle", "lightColorTimeout",
     "controlLights", "connectUCCNC", "handleStartScan"}

\* C17: a request or a connection is made only by the handler of a user
\* action, never by the step that handles a failed command, a failed connect,
\* a failed probe or an error or close of the CNC socket.
C17_NoAutomaticRetry == [][RequestMade => lastOp' \in RequestingOps]_vars

C17_Witness ==
    /\ lastOp = "ws.onerror"
    /\ cncStatus = "Disconnected"
    /\ lightConnectionStatus = "Error"
    /\ \E h \in Hosts : probes[h] \in {"networkError", "timeout"}
    /\ Settled(probes)
    /\ connecting = 0
    /\ Len(inflight) = 0
    /\ \A s \in 1..Len(sockets) : sockets[s] \notin {"CONNECTING", "OPEN"}

\* a socket whose events can still change the CNC status
SocketPending == \E s \in 1..Len(sockets) : sockets[s] # "CLOSED"

\* C18: nothing stays stuck: while isUpdatingLight is set a response is
\* outstanding that resets it, while the light shows Connecting a connect
\* response is outstanding, and while the CNC shows Connecting a socket exists
\* whose events lead out of Connecting.
C18_NoFailureLeavesUiStuck ==
    /\ isUpdatingLight => Len(inflight) > 0
    /\ lightConnectionStatus = "Connecting" => connecting > 0
    /\ cncStatus = "Connecting" => SocketPending

----------------------------------------------------------------------------
\* Properties of the CNC socket

CommandOps == {"handleCncCommand", "cncToolCall"}
RefOpen == websocketRef # 0 /\ sockets[websocketRef] = "OPEN"

\* a value of a message field that is present in the message
Carried(v) == v # "undefined"
\* no file: null in the state, the empty string in a message
SameFile(a, b) == a = b \/ (a \in {"", "null"} /\ b \in {"", "null"})

\* the state after a message is the state before, with each carried field replaced
UpdatesCarriedFields(d) ==
    /\ cncStatus' = IF Carried(d.status) THEN d.status ELSE cncStatus
    /\ SameFile(gcodeFile', IF Carried(d.gcodeFile) THEN d.gcodeFile ELSE gcodeFile)
    /\ gcodeProgress' = IF d.progress # Undefined THEN d.progress ELSE gcodeProgress

\* C19: a command is handed to the socket exactly when the socket of the ref
\* is open, as one {command} message, and is dropped otherwise; a message
\* that parses replaces exactly the fields it carries.
C19_CommandsWhileOpenAndFieldwiseUpdate ==
    [][/\ (lastOp' \in CommandOps /\ steps' # steps) =>
              \E c \in CncCommands :
                  outbox' = IF RefOpen
                            THEN Append(outbox, [socket |-> websocketRef, command |-> c])
                            ELSE outbox
       /\ outbox' # outbox => lastOp' \in CommandOps
       /\ \A s \in 1..MaxSockets, d \in CncMessages :
              (d.parses /\ SocketMessage(s, d)) => UpdatesCarriedFields(d)]_vars

\* C20: a message that does not parse changes neither the CNC state nor the
\* socket, which stays open, and a message that parses afterwards is applied.
C20_UnparseableMessageIsIgnored ==
    [][/\ \A s \in 1..MaxSockets, d \in CncMessages :
              (~d.parses /\ SocketMessage(s, d)) =>
                  /\ CncState' = CncState
                  /\ sockets' = sockets /\ sockets'[s] = "OPEN"
                  /\ websocketRef' = websocketRef
                  /\ parseLog' = "failed"
       /\ (lastOp' = "ws.onmessage" /\ parseLog = "failed"
             /\ parseLog' = "processedAfterFailure") =>
              \E d \in CncMessages :
                  /\ d.parses
                  /\ cncStatus' = IF Truthy(d.status) THEN d.status ELSE cncStatus
                  /\ gcodeFile' = IF Truthy(d.gcodeFile) THEN d.gcodeFile ELSE gcodeFile
                  /\ gcodeProgress' = IF d.progress # Undefined THEN d.progress
                                      ELSE gcodeProgress]_vars

C20_Witness ==
    /\ parseLog = "processedAfterFailure"
    /\ lastOp = "ws.onmessage"
    /\ cncStatus = "Running"
    /\ gcodeProgress = 50
    /\ RefOpen

----------------------------------------------------------------------------
\* Properties of unmounting WorkshopControl

\* C21: the unmount step closes the CNC socket of the ref and cancels the
\* pending debounce timer, and no step after it sends a light command or
\* writes device state.
C21_NothingSentAfterUnmount ==
    [][/\ lastOp' = "unmount" /\ Mounted =>
              /\ Len(timers') = 0
              /\ websocketRef # 0 => sockets'[websocketRef] \notin {"CONNECTING", "OPEN"}
       /\ ~Mounted =>
              /\ Len(inflight') <= Len(inflight)
              /\ DeviceState' = DeviceState]_vars

----------------------------------------------------------------------------
\* Properties of the stored API key

\* C22: local storage holds nothing but one key; it is written only by the
\* step that ends a successful validation call, with the key of that call; a
\* failed validation leaves local storage and apiKey as they were and leaves
\* the dialog open with an error.
C22_KeyStoredOnlyAfterValidation ==
    [][/\ localStorage' \in {NoKey} \cup ({Trim(t) : t \in KeyTexts} \ {""})
       /\ localStorage' # localStorage =>
              /\ lastOp' = "keyValidation"
              /\ keyLog'[Len(keyLog')] = "ok"
              /\ localStorage' = keyRequest
       /\ lastOp' = "keyValidation" /\ keyLog'[Len(keyLog')] # "ok" =>
              /\ localStorage' = localStorage
              /\ apiKey' = apiKey
              /\ showKeyModal'
              /\ keyError' # ""]_vars

\* both cases happened: a validation failed, then one succeeded and its key is stored
C22_Witness ==
    /\ lastOp = "keyValidation"
    /\ keyLog = <<"rejected", "ok">>
    /\ localStorage = "k1"
    /\ apiKey = "k1"
    /\ ~showKeyModal

----------------------------------------------------------------------------
\* Properties of the camera

\* C23: the step that handles a failed camera access shows a message and
\* leaves the camera powered off with no stream held.
C23_FailedCameraAccessRollsBack ==
    [][lastOp' = "cameraAccess" /\ alerted' =>
           /\ ~camera'.power
           /\ ~cameraStream']_vars

----------------------------------------------------------------------------
\* Properties of the light connection

\* C24: a POST /state is issued only in a state whose light status is
\* Connected, whichever source the command has.
C24_PostOnlyWhileConnected ==
    [][IssueStep => lightConnectionStatus = "Connected"]_vars

\* C25: an accepted light command, whichever source it has, leaves lights
\* equal to the lights of the state in which it ran with the requested
\* fields replaced.
C25_MergesOntoCurrentLights ==
    [][IssueStep => lights' = Merge(lights, Issued.newState)]_vars

\* the steps that handle the outcome of a light request
LightOutcomeOps == {"connectResponse", "lightResponseOk", "lightResponseFailed"}

\* C26: while the light is Disconnected only a new connect changes the
\* status, and the outcome of a command or of a connect that was still in
\* flight changes neither the status nor lights.
C26_DisconnectedUntilNewConnect ==
    [][lightConnectionStatus = "Disconnected" /\ steps' # steps =>
           /\ lightConnectionStatus' = "Disconnected" \/ lastOp' = "handleConnectLight"
           /\ lastOp' \in LightOutcomeOps => lights' = lights]_vars

\* C27: a connect starts only from Disconnected or Error and sets Connecting;
\* the status becomes Connected only by the response to GET /status, which
\* sets Connected or Error; at most one GET /status is in flight.
C27_ConnectLifecycle ==
    /\ [][/\ lastOp' = "handleConnectLight" /\ steps' # steps =>
                 isLightConnectable /\ lightConnectionStatus' = "Connecting"
          /\ lastOp' = "connectResponse" /\ steps' # steps =>
                 lightConnectionStatus' \in {"Connected", "Error"}
          /\ lightConnectionStatus' = "Connected" /\ lightConnectionStatus # "Connected" =>
                 lastOp' = "connectResponse"]_vars
    /\ [](connecting <= 1)

----------------------------------------------------------------------------
\* Properties of the CNC connection

\* the sockets whose events can still arrive
LiveSockets == {s \in 1..Len(sockets) : sockets[s] # "CLOSED"}

\* the step closed socket s
Closed(s) == sockets[s] # "CLOSED" /\ sockets'[s] = "CLOSED"

\* C28: at most one socket is live and websocketRef refers to it; cncStatus is
\* Disconnected exactly when no socket is held; a connect is accepted only
\* from Disconnected; the close or error of a socket that is not the one of
\* websocketRef changes neither the ref nor the CNC state.
C28_OneSocketAndRefFollowsIt ==
    /\ [](/\ Cardinality(LiveSockets) <= 1
          /\ \A s \in LiveSockets : websocketRef = s
          /\ cncStatus = "Disconnected" <=> websocketRef = 0)
    /\ [][/\ lastOp' = "connectUCCNC" /\ steps' # steps => cncStatus = "Disconnected"
          /\ \A s \in 1..Len(sockets) :
                 Closed(s) /\ websocketRef # s =>
                     websocketRef' = websocketRef /\ CncState' = CncState]_vars

\* useState('Disconnected'), useState(null), useState(0)
InitialCncState == <<"Disconnected", "null", 0>>

\* C29: the step in which a socket closes, after a disconnect by the user, a
\* close by the bridge or the unmount, clears websocketRef and, in the
\* mounted component, puts cncStatus, gcodeFile and gcodeProgress back to
\* their initial values; the connect that follows starts from them.
C29_CloseResetsCncState ==
    [][/\ \A s \in 1..Len(sockets) :
              Closed(s) => /\ websocketRef' = 0
                           /\ Mounted' => CncState' = InitialCncState
       /\ lastOp' = "connectUCCNC" /\ lastOp \in {"ws.onclose", "ws.onerror"} =>
              CncState = InitialCncState /\ websocketRef = 0]_vars

\* a file was loaded and a command sent, the socket closed and a new connect started
C29_Witness ==
    /\ lastOp = "connectUCCNC"
    /\ Len(outbox) > 0
    /\ Len(sockets) = 2
    /\ sockets[1] = "CLOSED"
    /\ websocketRef = 2
    /\ CncState = <<"Connecting", "null", 0>>

----------------------------------------------------------------------------
\* Properties of stopping a conversation early

\* C30: while isListening is false no microphone stream is live, no capture
\* graph is connected and no input audio context is running, also when the
\* stop came before the session opened or before the microphone was granted.
C30_NoLiveMicrophoneWhenNotListening ==
    ~isListening =>
        \A s \in Sessions : /\ sessions[s].mediaStream # "live"
                            /\ sessions[s].graph # "connected"
                            /\ sessions[s].audioContext # "running"

----------------------------------------------------------------------------
\* Properties of the camera state

\* C31: in every reachable state the camera is recording only if it is
\* powered on.
C31_RecordingImpliesPower == camera.recording => camera.power

----------------------------------------------------------------------------
\* Properties of the scan progress

\* C32: a scan starts with progress 0, no results and no probe of an earlier
\* scan outstanding; from then on scanProgress is the number of settled
\* probes of that scan and at most the number of hosts; a probe that settles
\* adds one to the progress and at most its own host to the results, and
\* isScanning falls only with a stop or with the last probe.
C32_ProgressCountsCurrentScan ==
    /\ [](/\ scanProgress <= MaxHosts
          /\ isScannerOpen /\ scanAbortControllerRef # "null" =>
                 scanProgress = Cardinality(Hosts \ Pending(probes)))
    /\ [][/\ lastOp' = "handleStartScan" =>
                 /\ Settled(probes)
                 /\ scanProgress' = 0
                 /\ scanResults' = << >>
          /\ lastOp' = "probeResponse" =>
                 /\ scanAbortControllerRef = "live"
                 /\ scanProgress' = scanProgress + 1
                 /\ \E h \in Hosts : scanResults' \in {scanResults, Append(scanResults, h)}
                 /\ ~isScanning' => Settled(probes')]_vars

\* a scan was stopped with one result; the scan started after it has settled
\* one probe, which failed
C32_Witness ==
    /\ lastOp = "probeResponse"
    /\ isScanning
    /\ scanAbortControllerRef = "live"
    /\ Len(abortedResults) = 1
    /\ scanProgress = 1
    /\ scanResults = << >>

----------------------------------------------------------------------------
\* Properties of the mock backend

\* C33: lightState changes only while a token is set, and a power or colour
\* request that arrives while none is set is answered 401 and changes
\* nothing.
C33_LightStateChangesOnlyWhenAuthenticated ==
    [][/\ lightState' # lightState => googleToken # "null"
       /\ lastOp' \in {"lightsPower", "lightsColor"} /\ googleToken = "null" =>
              /\ response'.status = 401
              /\ lightState' = lightState
              /\ delayed' = delayed]_vars

\* the request a callback step answered
Answered(i) == delayed' = RemoveAt(delayed, i)

\* C34: a response with an error status leaves lightState unchanged: 401
\* without a token, 400 for a power other than on / off or a colour with a
\* channel missing, 500 for the simulated failure; a SUCCESS response to a
\* power or colour request leaves the requested value in lightState.
C34_ErrorsChangeNothingSuccessApplied ==
    [][/\ response'.status \in {400, 401, 500} /\ steps' # steps => lightState' = lightState
       /\ lastOp' = "lightsPower" /\ googleToken # "null" =>
              (response'.status = 400 /\ steps' # steps) \/ Len(delayed') = Len(delayed) + 1
       /\ lastOp' = "powerTimeout" =>
              \E i \in 1..Len(delayed) :
                  /\ Answered(i)
                  /\ delayed[i].power \in {"on", "off"}
                  /\ response'.status \in {200, 500}
                  /\ response'.status = 200 => lightState'.power = delayed[i].power
       /\ lastOp' = "colorTimeout" =>
              \E i \in 1..Len(delayed) :
                  /\ Answered(i)
                  /\ delayed[i].color.r # Undefined
                  /\ delayed[i].color.g # Undefined
                  /\ delayed[i].color.b # Undefined
                  /\ response'.status = 200
                  /\ lightState'.color = delayed[i].color]_vars

\* a power command failed and left the state alone after an earlier one was applied
C34_Witness ==
    /\ lastOp = "powerTimeout"
    /\ response = [status |-> 500, to |-> "power"]
    /\ lightState.power = "on"
    /\ delayed = << >>

----------------------------------------------------------------------------
\* Properties of the service worker

SameOrigin(u) == OriginOf(u) = Origin

\* C35: a same-origin GET is answered from the cache when an entry exists and
\* from the network otherwise, and is stored only when the status is 200; a
\* request that is not a GET is not handled; a cross-origin GET is answered
\* from the network and never stored; nothing else changes the caches.
C35_CacheFirstForSameOriginGet ==
    [][lastOp' = "fetch" =>
          /\ served'.method # "GET" => served'.from = "unhandled" /\ caches' = caches
          /\ served'.method = "GET" /\ SameOrigin(served'.url) =>
                 /\ served'.from = IF Matches(served'.url) THEN "cache" ELSE "network"
                 /\ caches' # caches =>
                        served'.status = 200 /\ caches' = Put(served'.url)
          /\ served'.method = "GET" /\ ~SameOrigin(served'.url) =>
                 served'.from = "network" /\ caches' = caches]_vars

\* C36: the activate step deletes every cache whose name is not CACHE_NAME
\* and keeps the current cache with its entries; once the worker is activated
\* the current cache is the only one that exists.
C36_ActivateKeepsOnlyCurrentCache ==
    /\ [][lastOp' = "activate" =>
             /\ \A n \in CacheNames : caches'[n].exists <=> n = CACHE_NAME
             /\ caches'[CACHE_NAME] = caches[CACHE_NAME]]_vars
    /\ [](swState = "activated" =>
             \A n \in CacheNames : caches[n].exists <=> n = CACHE_NAME)

\* the cache of the version before was deleted and the current one kept its entries
C36_Witness ==
    /\ lastOp = "activate"
    /\ swState = "activated"
    /\ deleted = {OldCacheName}
    /\ caches[CACHE_NAME] = Cache(urlsToCache)
    /\ caches[OldCacheName] = Absent

----------------------------------------------------------------------------
\* Properties of the research assistant

SendOps == {"sendClick", "enterKey"}
ResponseOps == {"assistantReply", "assistantError"}
IsPrefix(a, b) == Len(a) <= Len(b) /\ SubSeq(b, 1, Len(a)) = a

\* C37: a send with blank input or without an API key appends no message and
\* issues no request; an accepted send happens only while not loading, appends
\* the user message and issues the request for it; a reply is appended only
\* when the request succeeded, and loading is false after every success or
\* failure; the message list only grows at its end; at most one request is in
\* flight, and only while loading, after the user message it belongs to.
C37_SendDiscipline ==
    /\ [][/\ lastOp' \in SendOps =>
               IF TrimInput(input) = "" \/ API_KEY = NoKey
               THEN messages' = messages /\ requests' = requests
               ELSE IF loading
               THEN messages' = messages /\ requests' = requests
               ELSE /\ messages' = Append(messages, UserMessage(input))
                    /\ requests' = Append(requests, input)
                    /\ loading'
          /\ lastOp' \in ResponseOps =>
               /\ ~loading'
               /\ requests' = << >>
               /\ messages' # messages =>
                      /\ lastOp' = "assistantReply"
                      /\ messages' = Append(messages, ModelMessage(requests[1]))
          /\ lastOp' = "assistantReply" => Len(messages') = Len(messages) + 1
          /\ IsPrefix(messages, messages')]_vars
    /\ [](/\ Len(requests) <= 1
          /\ requests # << >> =>
                 /\ loading
                 /\ messages # << >>
                 /\ messages[Len(messages)] = UserMessage(requests[1])
          /\ API_KEY = NoKey => messages = << >> /\ requests = << >>)

\* a question was asked and answered, a second one failed, and a blank send
\* after it changed nothing
C37_Witness ==
    /\ lastOp = "enterKey"
    /\ TrimInput(input) = ""
    /\ ~loading
    /\ requests = << >>
    /\ error = "An error occurred. Please try again."
    /\ messages = <<UserMessage("q"), ModelMessage("q"), UserMessage(" q ")>>

====
